---- MODULE Spec2Model ----
(***************************************************************************)
(* A model of the multi-agent QA backend (src/backend/server.js): the      *)
(* generation provider with its model fallback loop, the Playwright audit  *)
(* collector, the plan generator, the design comparator and the mission    *)
(* orchestrator behind POST /api/start-test.                               *)
(*                                                                         *)
(* One mission is followed from the arrival of the request to the response.*)
(* The collaborators (browser, generative API, Figma API) are the          *)
(* environment: each of their calls returns or throws nondeterministically.*)
(***************************************************************************)
EXTENDS Integers, Sequences, FiniteSets, TLC

VARIABLES
    pc,            \* control location of the mission (the await it is suspended at)
    stage,         \* orchestrator stage the mission is in, or was in when it ended
    outcome,       \* "none" while running, "Done" / "Failed" once startMission settled
    env,           \* process.env.FIGMA_ACCESS_TOKEN
    config,        \* the argument of startMission
    cstep,         \* executeAudit: index of the browser call being awaited
    browserVar,    \* executeAudit: the local browser (FALSE = undefined)
    session,       \* the browser session: "none", "open", "closed"
    auditResults,  \* executeAudit: the local auditResults
    auditData,     \* startMission: what executeAudit returned (JUndef before)
    collectCalls,  \* number of executeAudit invocations
    gen,           \* the generate call in progress: its stage, candidates, position
    genRet,        \* what the last generate call returned or threw
    genLog,        \* per stage: the completion requests made, in order, with outcome
    genCalls,      \* per stage: number of generate invocations
    plan,          \* startMission: what createTestPlan returned
    figmaImage,    \* startMission: what fetchFigmaImage returned
    figmaRequests, \* number of HTTP requests sent to the design API / thumbnail host
    designAnalysis,\* startMission: what compare returned
    caught,        \* executeAudit: the error its catch block holds (JUndef = none)
    response,      \* the HTTP response sent for the request (status 0 = none yet)
    col,           \* per concurrent mission: its executeAudit invocation
    launched,      \* the missions whose invocation has launched its browser
    latest,        \* the mission whose executeAudit invocation began last (0 = none)
    panel          \* the control panel: its React state and its startTest activation

missionVars == << pc, stage, outcome, env, config, cstep, browserVar, session,
           auditResults, auditData, collectCalls, gen, genRet, genLog, genCalls,
           plan, figmaImage, figmaRequests, designAnalysis, caught, response >>

vars == << missionVars, col, launched, latest, panel >>

----------------------------------------------------------------------------
(* JavaScript values.  Every value is a record tagged by its kind k.       *)

JUndef == [k |-> "undefined"]
JNull == [k |-> "null"]
JStr(s) == [k |-> "str", v |-> s]
\* A string held as a sequence of tokens (a text of the generative API).
JText(t) == [k |-> "text", v |-> t]
JNum(n) == [k |-> "num", v |-> n]
JArr(s) == [k |-> "arr", v |-> s]
JObj(f) == [k |-> "obj", v |-> f]
\* A base64 text, abstracted to what it encodes and its length in characters.
JB64(id, len) == [k |-> "b64", id |-> id, from |-> 0, len |-> len]
\* A thrown exception (the result of an expression that throws).
JThrow(name, msg) == [k |-> "throw", name |-> name, message |-> msg]

\* ToBoolean: undefined, null, "" and 0 are falsy.
Truthy(x) ==
    CASE x.k \in {"undefined", "null"} -> FALSE
      [] x.k = "str" -> x.v # ""
      [] x.k = "text" -> x.v # << >>
      [] x.k = "num" -> x.v # 0
      [] x.k = "b64" -> x.len > 0
      [] OTHER -> TRUE

\* a || b
Or(a, b) == IF Truthy(a) THEN a ELSE b

Min(a, b) == IF a <= b THEN a ELSE b

\* s.substring(0, n) of a base64 text.
Substring0(s, n) == [s EXCEPT !.len = Min(s.len, n)]

----------------------------------------------------------------------------
(* Texts returned by the generative API.  A text is the sequence of its   *)
(* pieces: a run of three backquotes with the word json right after it, a  *)
(* run of three backquotes, a word, white space, or a piece of content.  A *)
(* JSON document is the sequence of the pieces it is written with, so a    *)
(* run of three backquotes can stand inside one of its strings.            *)

\* Three backquotes followed by json, three backquotes (written with quotes
\* here, a backquote cannot appear in a TLA+ string), and another word that
\* may follow them on a fence line.
FenceJson == "'''json"
Fence == "'''"
TagJs == "js"
NL == "\n"

NotFenceJson(t) == t # FenceJson
NotFence(t) == t # Fence

IsSpace(t) == t \in {NL, " "}

RECURSIVE TrimStart(_)
TrimStart(s) == IF s # <<>> /\ IsSpace(Head(s)) THEN TrimStart(Tail(s)) ELSE s

RECURSIVE TrimEnd(_)
TrimEnd(s) ==
    IF s # <<>> /\ IsSpace(s[Len(s)]) THEN TrimEnd(SubSeq(s, 1, Len(s) - 1)) ELSE s

\* String.prototype.trim (the text is evaluated once, whatever it is given as)
Trim(s) == CHOOSE t \in { TrimEnd(TrimStart(u)) : u \in {s} } : TRUE

\* rawText.replace(/'''json/g, '').replace(/'''/g, '').trim()
cleanJson(rawText) == Trim(SelectSeq(SelectSeq(rawText, NotFenceJson), NotFence))

\* The steps of the JSON documents below.
Step(id, action, expectation) ==
    JObj([id |-> JNum(id), action |-> JStr(action), expectation |-> JStr(expectation)])

PlanDocOne == "{\"test_plan\":[{\"id\":1,\"action\":\"A\",\"expectation\":\"B\"}]}"
PlanDocTwo ==
    "{\"test_plan\":[{\"id\":7,\"action\":\"Check Header\",\"expectation\":\"Logo visible\"},{\"id\":3,\"action\":\"Click CTA\",\"expectation\":\"Clickable\"}]}"
\* A one-step plan whose action is the text  Wrap in ''' fences : the
\* document up to the three backquotes, and the rest of it.
PlanDocWrapHead == "{\"test_plan\":[{\"id\":1,\"action\":\"Wrap in "
PlanDocWrapTail == " fences\",\"expectation\":\"B\"}]}"
EmptyObjDoc == "{}"
NullDoc == "null"
Prose == "I am unable to help with that."
ReportPassDoc ==
    "{\"status\":\"pass\",\"analysis\":\"ok\",\"issues\":[],\"test_plan\":[{\"id\":1,\"action\":\"A\",\"expectation\":\"B\"}],\"figma_analysis\":\"n/a\"}"
ReportUnknownDoc == "{\"status\":\"unknown\",\"analysis\":\"?\"}"
ReportNoStatusDoc == "{\"analysis\":\"ok\"}"
ReportShadowDoc ==
    "{\"status\":\"fail\",\"figma_status\":\"bogus\",\"screenshot_preview\":\"none\"}"

PlanOne == JArr(<< Step(1, "A", "B") >>)
PlanTwo == JArr(<< Step(7, "Check Header", "Logo visible"), Step(3, "Click CTA", "Clickable") >>)
PlanWrap == JArr(<< Step(1, "Wrap in ''' fences", "B") >>)
PlanWrapStripped == JArr(<< Step(1, "Wrap in  fences", "B") >>)

\* What each JSON document denotes.
JSONDocs ==
    (<< PlanDocOne >> :> JObj([test_plan |-> PlanOne]))
    @@ (<< PlanDocTwo >> :> JObj([test_plan |-> PlanTwo]))
    @@ (<< PlanDocWrapHead, Fence, PlanDocWrapTail >> :> JObj([test_plan |-> PlanWrap]))
    @@ (<< PlanDocWrapHead, PlanDocWrapTail >> :> JObj([test_plan |-> PlanWrapStripped]))
    @@ (<< EmptyObjDoc >> :> JObj(<<>>))
    @@ (<< NullDoc >> :> JNull)
    @@ (<< ReportPassDoc >> :> JObj([status |-> JStr("pass"), analysis |-> JStr("ok"),
                               issues |-> JArr(<<>>), test_plan |-> PlanOne,
                               figma_analysis |-> JStr("n/a")]))
    @@ (<< ReportUnknownDoc >> :> JObj([status |-> JStr("unknown"), analysis |-> JStr("?")]))
    @@ (<< ReportNoStatusDoc >> :> JObj([analysis |-> JStr("ok")]))
    @@ (<< ReportShadowDoc >> :> JObj([status |-> JStr("fail"), figma_status |-> JStr("bogus"),
                                 screenshot_preview |-> JStr("none")]))

\* JSON.parse: white space around the document is allowed; anything that is
\* not exactly one JSON document throws a SyntaxError.
JSONParse(text) ==
    LET body == Trim(text)
    IN  IF body \in DOMAIN JSONDocs
        THEN JSONDocs[body]
        ELSE JThrow("SyntaxError", << "Unexpected token" >>)

\* value.name : a TypeError on null and undefined, undefined when missing.
GetProp(value, name) ==
    CASE value.k \in {"null", "undefined"} ->
            JThrow("TypeError", << "Cannot read properties of ", value.k >>)
      [] value.k = "obj" /\ name \in DOMAIN value.v -> value.v[name]
      [] OTHER -> JUndef

\* The own enumerable properties copied by {...value} (none for null, numbers).
Spread(value) == IF value.k = "obj" THEN value.v ELSE << >>

\* The texts the generative API may answer with, per requesting stage.
PlanTexts ==
    { << FenceJson, NL, PlanDocTwo, NL, Fence >>,
      << Fence, TagJs, NL, PlanDocOne, NL, Fence >>,
      << PlanDocOne >>,
      << PlanDocWrapHead, Fence, PlanDocWrapTail >>,
      << EmptyObjDoc >>,
      << NullDoc >> }

CompareTexts == { << "Header colour differs." >>, << "The \"Buy\" button is missing." >> }

SynthTexts ==
    { << FenceJson, NL, ReportPassDoc, NL, Fence >>,
      << ReportUnknownDoc >>,
      << ReportNoStatusDoc >>,
      << ReportShadowDoc >>,
      << Prose >> }

Responses(st) ==
    CASE st = "plan" -> PlanTexts
      [] st = "compare" -> CompareTexts
      [] st = "synth" -> SynthTexts

----------------------------------------------------------------------------
(* AI_Provider.generate                                                    *)

FallbackChain ==
    << JStr("gemini-2.5-flash"), JStr("gemini-2.0-flash-exp"),
       JStr("gemini-1.5-pro"), JStr("gemini-1.5-flash") >>

\* [preferredModel, ...chain].filter(Boolean)
modelsToTryTwoPasses(preferredModel) ==
    SelectSeq(<< preferredModel >> \o FallbackChain \o FallbackChain, Truthy)
modelsToTry(preferredModel) == SelectSeq(<< preferredModel >> \o FallbackChain, Truthy)

GenStages == {"plan", "compare", "synth"}

NoGen == [stage |-> "none", models |-> << >>, i |-> 0, parts |-> << >>]
NoRet == [ok |-> FALSE, text |-> << >>, error |-> JUndef]

\* The for-of loop is over when every candidate has been visited.
LoopDoneOffByOne(g) == g.i >= Len(g.models)
LoopDone(g) == g.i > Len(g.models)

\* catch (error) { console.warn(...) } : on to the next candidate.
SkipACandidate(g) == [g EXCEPT !.i = g.i + 2]
RetrySameCandidate(g) == g
AfterFailure(g) == [g EXCEPT !.i = g.i + 1]

ProviderExhausted == JThrow("Error", << "All AI agents failed to respond." >>)

----------------------------------------------------------------------------
(* ExecutorAgent.executeAudit                                              *)

\* The awaited browser calls of the try block, in order; browser.close() follows.
CollectSteps ==
    << "launch", "newContext", "newPage", "goto", "waitForTimeout",
       "title", "screenshot", "evaluate" >>

\* Length in characters of the base64 text of a captured screenshot.
ShotLen == 64
\* Length in characters of the base64 text of a fetched design thumbnail.
FigmaLen == 32

PageTitle == "Example Domain"
PageText == "Example Domain. This domain is for use in illustrative examples."

AuditInit ==
    [consoleLogs |-> << >>, networkStatus |-> 0, screenshot |-> JNull,
     title |-> "", htmlSnippet |-> ""]

\* The awaited call at position i of the try block: the browser calls, then
\* browser.close().
CollectStepAt(i) == IF i <= Len(CollectSteps) THEN CollectSteps[i] ELSE "close"

\* The errors a browser call may throw.  "catchClose" is the browser.close() of
\* the catch block.
Causes(step) ==
    CASE step = "goto" ->
            { "page.goto: Timeout 45000ms exceeded.", "page.goto: net::ERR_NAME_NOT_RESOLVED" }
      [] step = "close" -> { "Target closed" }
      [] step = "catchClose" -> { "WebSocket error: connection lost" }
      [] OTHER -> { step }

\* What a successful browser call stores into auditResults.
CaptureDroppingScreenshot(step, ar) ==
    CASE step = "title" -> [ar EXCEPT !.title = PageTitle]
      [] step = "evaluate" -> [ar EXCEPT !.htmlSnippet = PageText]
      [] OTHER -> ar
Capture(step, ar) ==
    CASE step = "title" -> [ar EXCEPT !.title = PageTitle]
      [] step = "screenshot" -> [ar EXCEPT !.screenshot = JB64("live", ShotLen)]
      [] step = "evaluate" -> [ar EXCEPT !.htmlSnippet = PageText]
      [] OTHER -> ar

\* The missions that may run at the same time, and the URL each is given.
Missions == {1, 2}
UrlA == "https://a.test/"
UrlB == "https://b.test/"
UrlOf(m) == IF m = 1 THEN UrlA ELSE UrlB

\* The console messages and the responses a page may emit.  For the page told
\* to go to UrlA: its own response, the same URL answering with a redirect,
\* the redirect target UrlB, and a subresource.
ConsoleEvents == [kind : {"console"}, type : {"error", "warning", "log"}, text : {"x"}]
ResponseEvents ==
    { [kind |-> "response", url |-> UrlA, status |-> 200],
      [kind |-> "response", url |-> UrlA, status |-> 301],
      [kind |-> "response", url |-> UrlB, status |-> 200],
      [kind |-> "response", url |-> "https://a.test/app.js", status |-> 404] }

\* Number of page events followed, over the missions running together.
MaxPageEvents == 2

\* page.on('console', ...) and page.on('response', ...) are set up in the
\* continuation of this awaited call, before page.goto is called.
ObserversAttachedAfter == "newPage"

\* msg => { if (type is error or warning) consoleLogs.push("[type] text") }
onConsole(ar, msg) ==
    IF msg.type = "error" \/ msg.type = "warning"
    THEN [ar EXCEPT !.consoleLogs = Append(@, << "[", msg.type, "] ", msg.text >>)]
    ELSE ar

\* response => { if (response.url() === url) networkStatus = response.status() }
onResponseAnyUrl(ar, resp, url) == [ar EXCEPT !.networkStatus = resp.status]
onResponse(ar, resp, url) ==
    IF resp.url = url THEN [ar EXCEPT !.networkStatus = resp.status] ELSE ar

\* The mission whose auditResults an observer of mission m's page writes:
\* auditResults is a const of the invocation that created the observer.
ObserverTargetShared(m, lastInvocation) == lastInvocation
ObserverTarget(m, lastInvocation) == m

\* A mission that has not begun: the locals of its executeAudit invocation
\* (browser, auditResults, the observers of its page, with the page events
\* its page emitted, their number, and the invocations that called a method of
\* its browser), and the locals of its startMission activation and of the handler that answers it.
NoInvocation ==
    [pc |-> "idle", url |-> "", cstep |-> 0, browser |-> 0, session |-> "none",
     observers |-> {}, ar |-> AuditInit, seen |-> << >>, caught |-> JUndef, result |-> JUndef,
     events |-> 0, users |-> {}, stage |-> "Idle", outcome |-> "none", gen |-> NoGen, genRet |-> NoRet,
     answers |-> [s \in GenStages |-> NoRet], plan |-> JUndef, figmaImage |-> JUndef,
     figmaRequests |-> 0, designAnalysis |-> JUndef,
     response |-> [status |-> 0, body |-> [success |-> FALSE]]]

\* catch (error) { if (browser) await browser.close(); ... } : the session after it.
CatchRelease(b, s) == IF b THEN "closed" ELSE s

\* new Error("Executor Audit Failed: " + error.message)
AuditFailure(error) == JThrow("Error", << "Executor Audit Failed: " >> \o error.message)

----------------------------------------------------------------------------
(* ArchitectAgent.createTestPlan                                           *)

FallbackPlanRenumbered ==
    JArr(<< Step(1, "Fallback Plan", "Verify Page Load") >>)
FallbackPlan ==
    JArr(<< Step(0, "Fallback Plan", "Verify Page Load") >>)

\* createTestPlan after its await: the try/catch around generate, the fence
\* stripping and JSON.parse(cleanJson).test_plan.  The value it resolves with.
createTestPlanNoCatch(ret) ==
    IF ~ret.ok
    THEN ret.error
    ELSE LET parsed == JSONParse(cleanJson(ret.text))
         IN  IF parsed.k = "throw" THEN parsed ELSE GetProp(parsed, "test_plan")
createTestPlan(ret) ==
    IF ~ret.ok
    THEN FallbackPlan
    ELSE LET parsed == JSONParse(cleanJson(ret.text))
             tp == IF parsed.k = "throw" THEN parsed ELSE GetProp(parsed, "test_plan")
         IN  IF tp.k = "throw" THEN FallbackPlan ELSE tp

----------------------------------------------------------------------------
(* DesignAgent                                                             *)

\* if (!token || !fileKey) return null
FetchSkippedTokenOnly(token, fileKey) == ~Truthy(token)
FetchSkipped(token, fileKey) == ~Truthy(token) \/ ~Truthy(fileKey)

\* A response of fetch whose body has not been read yet.
HttpResponse == JObj([body |-> JStr("pending")])

\* How await fetch(...) may settle, for the file request and the thumbnail
\* request: it rejects, or resolves with a response.
MetaResponses == { JThrow("TypeError", << "fetch failed" >>), HttpResponse }
ThumbResponses == { JThrow("TypeError", << "fetch failed" >>), HttpResponse }

\* How await resp.json() may settle: it rejects, or resolves with the decoded
\* body.
MetaBodies ==
    { JThrow("SyntaxError", << "Unexpected token" >>),
      JObj([status |-> JNum(403), err |-> JStr("Invalid token")]),
      JObj([name |-> JStr("Design"), thumbnailUrl |-> JStr("https://figma.example/thumb.png")]) }

\* How await imgResp.arrayBuffer() may settle, seen through
\* Buffer.from(buffer).toString('base64'): it rejects, or gives the image as
\* base64, the empty string for an empty body.
ThumbBodies ==
    { JThrow("TypeError", << "terminated" >>), JB64("figma", FigmaLen), JB64("figma", 0) }

\* fetchFigmaImage after the metadata request: the thumbnail URL to fetch, or
\* null when the request threw (caught) or the body has no thumbnailUrl.
thumbnailUrlOf(data) ==
    IF data.k = "throw"
    THEN JNull
    ELSE IF Truthy(GetProp(data, "thumbnailUrl")) THEN GetProp(data, "thumbnailUrl") ELSE JNull

\* fetchFigmaImage after the thumbnail request: the image, or null when the
\* request threw (caught and logged).
thumbnailUncaught(img) == img
thumbnail(img) == IF img.k = "throw" THEN JNull ELSE img

Sentinel == JText(<< "No Figma Design provided for comparison." >>)

\* if (!figmaScreenshot) return "No Figma Design provided for comparison."
NoDesignIgnored(figmaScreenshot) == FALSE
NoDesign(figmaScreenshot) == ~Truthy(figmaScreenshot)

\* compare after its await: return await this.ai.generate(prompt, parts).
\* The text it resolves with, or the exception it rejects with.
compareDegrading(ret) == IF ret.ok THEN JText(ret.text) ELSE Sentinel
compare(ret) == IF ret.ok THEN JText(ret.text) ELSE ret.error

----------------------------------------------------------------------------
(* orchestrator.startMission and the POST /api/start-test handler          *)

\* devices && devices.length > 0 ? devices[0] : 'desktop'
deviceToTest(devices) == IF Len(devices) > 0 THEN devices[1] ELSE JStr("desktop")

\* startMission after the synthesis call: what finalJson is, or the exception
\* thrown by generate or by JSON.parse(finalJsonRaw.replace(...).trim()).
finalJsonOrEmpty(ret) ==
    IF ~ret.ok
    THEN JObj(<< >>)
    ELSE LET parsed == JSONParse(cleanJson(ret.text))
         IN  IF parsed.k = "throw" THEN JObj(<< >>) ELSE parsed
finalJsonOf(ret) == IF ~ret.ok THEN ret.error ELSE JSONParse(cleanJson(ret.text))

\* Number of characters of the screenshot shown in the preview.
PreviewLen == 50

figma_statusSwapped(image, fileKey) ==
    IF Truthy(image) THEN "success" ELSE IF Truthy(fileKey) THEN "skipped" ELSE "failed"
figma_status(image, fileKey) ==
    IF Truthy(image) THEN "success" ELSE IF Truthy(fileKey) THEN "failed" ELSE "skipped"

\* { ...finalJson, screenshot_preview: ..., figma_status: ... }
MissionResultSpreadLast(finalJson, shot, image, fileKey) ==
    LET base == Spread(finalJson)
    IN  [f \in DOMAIN base \cup {"screenshot_preview", "figma_status"} |->
            IF f \in DOMAIN base
            THEN base[f]
            ELSE IF f = "screenshot_preview"
                 THEN [k |-> "concat", head |-> Substring0(shot, PreviewLen), tail |-> "..."]
                 ELSE JStr(figma_status(image, fileKey))]
MissionResult(finalJson, shot, image, fileKey) ==
    LET base == Spread(finalJson)
    IN  [f \in DOMAIN base \cup {"screenshot_preview", "figma_status"} |->
            CASE f = "screenshot_preview" ->
                    [k |-> "concat", head |-> Substring0(shot, PreviewLen), tail |-> "..."]
              [] f = "figma_status" -> JStr(figma_status(image, fileKey))
              [] OTHER -> base[f]]

\* The request bodies the handler is given.
Bodies ==
    [url : {JStr("https://example.com")},
     devices : {<< >>, << JStr("mobile") >>, << JNull >>},
     figmaToken : {JUndef, JStr("tok")},
     figmaFile : {JStr(""), JStr("key")},
     llmModel : {JUndef, JStr(""), JStr("gemini-2.5-flash"), JStr("gemini-2.5-pro")}]

NoConfig ==
    [url |-> JUndef, device |-> JUndef, figmaToken |-> JUndef,
     figmaFile |-> JUndef, llmModel |-> JUndef]

NoResponse == [status |-> 0, body |-> [success |-> FALSE]]

\* The awaited calls of startMission in program order: executeAudit,
\* createTestPlan, fetchFigmaImage, compare, and the synthesis generate. Each
\* await suspends the mission until the call has returned or thrown.
startMissionAwaitsCompareFirst == << "collect", "plan", "compare", "fetch", "synth" >>
startMissionAwaits == << "collect", "plan", "fetch", "compare", "synth" >>

\* The statement the mission resumes at when the awaited call a has returned.
AfterAwait(a) ==
    LET i == CHOOSE n \in 1..Len(startMissionAwaits) : startMissionAwaits[n] = a
    IN  startMissionAwaits[i + 1]

----------------------------------------------------------------------------
(* The control panel (src/unnamed/part_002)                                *)

DeviceNames == << "mobile", "tablet", "desktop" >>

\* useState('idle'), useState(null), useState({mobile: true, tablet: false,
\* desktop: true}); no startTest activation is running.
\* No startTest activation is running.
NoRun == [pc |-> "none", devicesToRun |-> << >>, sent |-> << >>, results |-> << >>]

PanelInit ==
    [status |-> "idle",
     selectedDevices |-> [mobile |-> TRUE, tablet |-> FALSE, desktop |-> TRUE],
     report |-> JNull,
     run |-> NoRun,
     inFlight |-> 0,
     ignored |-> FALSE]

\* toggleDevice: if (status !== 'idle') return; otherwise flip the device.  The
\* field ignored remembers that a click was dropped.
toggleDeviceUnguarded(p, device) == [p EXCEPT !.selectedDevices[device] = ~@]
toggleDevice(p, device) ==
    IF p.status # "idle"
    THEN [p EXCEPT !.ignored = TRUE]
    ELSE [p EXCEPT !.selectedDevices[device] = ~@]

\* Object.keys(selectedDevices).filter(k => selectedDevices[k])
devicesToRunOf(selected) ==
    LET isSelected(k) == selected[k]
    IN  SelectSeq(DeviceNames, isSelected)

\* How await fetch(...) of a request to /api/start-test may settle: it
\* rejects, or resolves with a response that is ok or not.
FetchAnswers == { "rejects", "notOk", "ok" }

\* How await response.json() may settle: it rejects, or resolves with the body.
BodyAnswers ==
    { [k |-> "throw", success |-> FALSE, status |-> ""],
      [k |-> "obj", success |-> TRUE, status |-> "pass"],
      [k |-> "obj", success |-> TRUE, status |-> "fail"],
      [k |-> "obj", success |-> FALSE, status |-> ""] }

\* What runTestForDevice returns: the report entry for a body with success and
\* data, the entry of its catch block for everything else.
runTestForDevice(device, body) ==
    IF body.k = "obj" /\ body.success
    THEN [device |-> device, status |-> body.status]
    ELSE [device |-> device, status |-> "error"]

\* { score: passed / results.length * 100, results } with the score kept as
\* the two counts it is computed from.
finalReport(results) ==
    LET passed(r) == r.status = "pass"
    IN  [results |-> results,
         score |-> [passed |-> Len(SelectSeq(results, passed)), of |-> Len(results)]]

----------------------------------------------------------------------------
(* The state machine                                                       *)

Init ==
    /\ pc = "idle"
    /\ stage = "Idle"
    /\ outcome = "none"
    /\ env \in {JUndef, JStr("envtok")}
    /\ config = NoConfig
    /\ cstep = 0
    /\ browserVar = FALSE
    /\ session = "none"
    /\ auditResults = AuditInit
    /\ auditData = JUndef
    /\ collectCalls = 0
    /\ gen = NoGen
    /\ genRet = NoRet
    /\ genLog = [s \in GenStages |-> << >>]
    /\ genCalls = [s \in GenStages |-> 0]
    /\ plan = JUndef
    /\ figmaImage = JUndef
    /\ figmaRequests = 0
    /\ designAnalysis = JUndef
    /\ caught = JUndef
    /\ response = NoResponse
    /\ col = [m \in Missions |-> NoInvocation]
    /\ launched = {}
    /\ latest = 0
    /\ panel = PanelInit

\* The answers of the handler: res.status(500).json({success: false, error})
\* from its catch, res.json({success: true, data}) otherwise.
HandlerCatch(err) == [status |-> 500, body |-> [success |-> FALSE, error |-> err.message]]
HandlerReturn(result) == [status |-> 200, body |-> [success |-> TRUE, data |-> result]]

\* startMission rejects with err: the handler's catch answers 500.
MissionThrowStatusForgotten(err) ==
    /\ outcome' = "Failed"
    /\ pc' = "end"
    /\ response' = [status |-> 200, body |-> [success |-> FALSE, error |-> err.message]]
MissionThrow(err) ==
    /\ outcome' = "Failed"
    /\ pc' = "end"
    /\ response' = [status |-> 500, body |-> [success |-> FALSE, error |-> err.message]]

\* startMission resolves with result: the handler answers 200.
MissionReturn(result) ==
    /\ outcome' = "Done"
    /\ pc' = "end"
    /\ response' = [status |-> 200, body |-> [success |-> TRUE, data |-> result]]

\* The third argument of generate at each call site: createTestPlan and compare
\* pass two arguments, startMission passes llmModel.
preferredModelEverywhere(st, llmModel) == llmModel
preferredModelOf(st, llmModel) == IF st = "synth" THEN llmModel ELSE JUndef

\* await this.ai.generate(prompt, parts, preferredModel) : the call is entered.
GenerateCallWithoutImage(st, parts, preferredModel) ==
    /\ gen' = [stage |-> st, models |-> modelsToTry(preferredModel), i |-> 1, parts |-> << >>]
    /\ genCalls' = [genCalls EXCEPT ![st] = @ + 1]
    /\ genRet' = NoRet
    /\ pc' = "generate"
GenerateCall(st, parts, preferredModel) ==
    /\ gen' = [stage |-> st, models |-> modelsToTry(preferredModel), i |-> 1, parts |-> parts]
    /\ genCalls' = [genCalls EXCEPT ![st] = @ + 1]
    /\ genRet' = NoRet
    /\ pc' = "generate"

\* The POST /api/start-test handler up to the first await of startMission.
StartTest ==
    /\ pc = "idle"
    /\ \E body \in Bodies :
          config' = [url |-> body.url, device |-> deviceToTest(body.devices),
                     figmaToken |-> body.figmaToken, figmaFile |-> body.figmaFile,
                     llmModel |-> body.llmModel]
    /\ stage' = "Collecting"
    /\ collectCalls' = collectCalls + 1
    /\ auditResults' = AuditInit
    /\ browserVar' = FALSE
    /\ cstep' = 1
    /\ pc' = "collect"
    /\ UNCHANGED << outcome, env, session, auditData, gen, genRet, genLog, genCalls,
                    plan, figmaImage, figmaRequests, designAnalysis, caught, response >>
    /\ UNCHANGED << col, launched, latest, panel >>

\* A browser call of the try block returns.
BrowserCallOk ==
    /\ pc = "collect"
    /\ cstep <= Len(CollectSteps)
    /\ LET step == CollectSteps[cstep]
       IN  /\ browserVar' = (browserVar \/ step = "launch")
           /\ session' = IF step = "launch" THEN "open" ELSE session
           /\ auditResults' = Capture(step, auditResults)
    /\ cstep' = cstep + 1
    /\ UNCHANGED << pc, stage, outcome, env, config, auditData, collectCalls, gen, genRet,
                    genLog, genCalls, plan, figmaImage, figmaRequests, designAnalysis,
                    caught, response >>
    /\ UNCHANGED << col, launched, latest, panel >>

\* A browser call of the try block, or its browser.close(), throws: control
\* enters the catch block, which calls browser.close() if a browser was launched.
BrowserCallFails ==
    /\ pc = "collect"
    /\ cstep <= Len(CollectSteps) + 1
    /\ \E cause \in Causes(CollectStepAt(cstep)) :
          caught' = JThrow("Error", << cause >>)
    /\ pc' = "collectCatch"
    /\ UNCHANGED << stage, outcome, env, config, cstep, browserVar, session, auditResults,
                    auditData, collectCalls, gen, genRet, genLog, genCalls, plan,
                    figmaImage, figmaRequests, designAnalysis, response >>
    /\ UNCHANGED << col, launched, latest, panel >>

\* The catch block when its browser.close() rejects: line 140 is not reached,
\* executeAudit rejects with the error of the close and the browser is not
\* released.
CollectCatchCloseFails ==
    /\ pc = "collectCatch"
    /\ browserVar
    /\ stage' = stage
    /\ \E cause \in Causes("catchClose") : MissionThrow(JThrow("Error", << cause >>))
    /\ UNCHANGED << env, config, cstep, browserVar, session, auditResults, auditData,
                    collectCalls, gen, genRet, genLog, genCalls, plan, figmaImage,
                    figmaRequests, designAnalysis, caught >>
    /\ UNCHANGED << col, launched, latest, panel >>

\* The catch block when no browser was launched or its browser.close()
\* resolves: throw the AuditFailure.
CollectCatch ==
    /\ pc = "collectCatch"
    /\ session' = CatchRelease(browserVar, session)
    /\ stage' = stage
    /\ MissionThrow(AuditFailure(caught))
    /\ UNCHANGED << env, config, cstep, browserVar, auditResults, auditData, collectCalls,
                    gen, genRet, genLog, genCalls, plan, figmaImage, figmaRequests,
                    designAnalysis, caught >>
    /\ UNCHANGED << col, launched, latest, panel >>

\* await browser.close() resolves; return auditResults;  -- and startMission
\* goes on.
CollectReturn ==
    /\ pc = "collect"
    /\ cstep = Len(CollectSteps) + 1
    /\ session' = "closed"
    /\ auditData' = auditResults
    /\ stage' = "Planning"
    /\ pc' = AfterAwait("collect")
    /\ UNCHANGED << outcome, env, config, cstep, browserVar, auditResults, collectCalls,
                    gen, genRet, genLog, genCalls, plan, figmaImage, figmaRequests,
                    designAnalysis, caught, response >>
    /\ UNCHANGED << col, launched, latest, panel >>

\* createTestPlan up to its await: the prompt is built (device.toUpperCase())
\* outside the try block, then generate is called without a preferred model.
PlanCall ==
    /\ pc = "plan"
    /\ IF config.device.k = "str"
       THEN /\ GenerateCall("plan", << auditData.screenshot >>,
                                 preferredModelOf("plan", config.llmModel))
            /\ UNCHANGED << outcome, response >>
       ELSE /\ MissionThrow(JThrow("TypeError", << "Cannot read properties of ", config.device.k >>))
            /\ UNCHANGED << gen, genRet, genCalls >>
    /\ UNCHANGED << stage, env, config, cstep, browserVar, session, auditResults, auditData,
                    collectCalls, genLog, plan, figmaImage, figmaRequests, designAnalysis,
                    caught >>
    /\ UNCHANGED << col, launched, latest, panel >>

\* The completion request for the current candidate throws.
AttemptFails ==
    /\ pc = "generate"
    /\ ~LoopDone(gen)
    /\ genLog' = [genLog EXCEPT ![gen.stage] =
                    Append(@, [model |-> gen.models[gen.i].v, parts |-> gen.parts,
                               ok |-> FALSE, text |-> << >>])]
    /\ gen' = AfterFailure(gen)
    /\ UNCHANGED << pc, stage, outcome, env, config, cstep, browserVar, session,
                    auditResults, auditData, collectCalls, genRet, genCalls, plan,
                    figmaImage, figmaRequests, designAnalysis, caught, response >>
    /\ UNCHANGED << col, launched, latest, panel >>

\* The completion request for the current candidate answers: generate returns.
AttemptSucceeds ==
    /\ pc = "generate"
    /\ ~LoopDone(gen)
    /\ \E text \in Responses(gen.stage) :
          /\ genLog' = [genLog EXCEPT ![gen.stage] =
                          Append(@, [model |-> gen.models[gen.i].v, parts |-> gen.parts,
                                     ok |-> TRUE, text |-> text])]
          /\ genRet' = [ok |-> TRUE, text |-> text, error |-> JUndef]
    /\ pc' = "generated"
    /\ UNCHANGED << stage, outcome, env, config, cstep, browserVar, session, auditResults,
                    auditData, collectCalls, gen, genCalls, plan, figmaImage,
                    figmaRequests, designAnalysis, caught, response >>
    /\ UNCHANGED << col, launched, latest, panel >>

\* The loop ran out of candidates: generate throws.
Exhausted ==
    /\ pc = "generate"
    /\ LoopDone(gen)
    /\ genRet' = [ok |-> FALSE, text |-> << >>, error |-> ProviderExhausted]
    /\ pc' = "generated"
    /\ UNCHANGED << stage, outcome, env, config, cstep, browserVar, session, auditResults,
                    auditData, collectCalls, gen, genLog, genCalls, plan, figmaImage,
                    figmaRequests, designAnalysis, caught, response >>
    /\ UNCHANGED << col, launched, latest, panel >>

\* const figmaAuth = figmaToken || process.env.FIGMA_ACCESS_TOKEN
figmaAuth == Or(config.figmaToken, env)

\* createTestPlan after its await, and startMission taking its result.
PlanReturn ==
    /\ pc = "generated"
    /\ gen.stage = "plan"
    /\ \E r \in { createTestPlan(genRet) } :
           IF r.k = "throw"
           THEN /\ MissionThrow(r)
                /\ UNCHANGED << plan, stage, figmaRequests >>
           ELSE /\ plan' = r
                /\ stage' = "Comparing"
                /\ pc' = AfterAwait("plan")
                /\ figmaRequests' = IF FetchSkipped(figmaAuth, config.figmaFile)
                                     THEN figmaRequests
                                     ELSE figmaRequests + 1
                /\ UNCHANGED << outcome, response >>
    /\ gen' = NoGen
    /\ genRet' = NoRet
    /\ UNCHANGED << env, config, cstep, browserVar, session, auditResults,
                    auditData, collectCalls, genLog, genCalls, figmaImage,
                    designAnalysis, caught >>
    /\ UNCHANGED << col, launched, latest, panel >>

\* fetchFigmaImage returns null at once: a credential is missing.
FetchSkip ==
    /\ pc = "fetch"
    /\ FetchSkipped(figmaAuth, config.figmaFile)
    /\ figmaImage' = JNull
    /\ pc' = AfterAwait("fetch")
    /\ UNCHANGED << stage, outcome, env, config, cstep, browserVar, session, auditResults,
                    auditData, collectCalls, gen, genRet, genLog, genCalls, plan,
                    figmaRequests, designAnalysis, caught, response >>
    /\ UNCHANGED << col, launched, latest, panel >>

\* await fetch(...) of the file request settles: a rejection is caught and
\* null returned, a response has its json() called.
FetchMeta ==
    /\ pc = "fetch"
    /\ ~FetchSkipped(figmaAuth, config.figmaFile)
    /\ \E resp \in MetaResponses :
          IF resp.k = "throw"
          THEN /\ pc' = AfterAwait("fetch")
               /\ figmaImage' = thumbnailUrlOf(resp)
          ELSE /\ pc' = "fetchMetaBody"
               /\ UNCHANGED figmaImage
    /\ UNCHANGED << stage, outcome, env, config, cstep, browserVar, session, auditResults,
                    auditData, collectCalls, gen, genRet, genLog, genCalls, plan,
                    figmaRequests, designAnalysis, caught, response >>
    /\ UNCHANGED << col, launched, latest, panel >>

\* await resp.json() settles: with a thumbnailUrl the thumbnail request is
\* sent; a rejection or a body without one makes fetchFigmaImage return null.
FetchMetaBody ==
    /\ pc = "fetchMetaBody"
    /\ \E data \in MetaBodies :
          IF Truthy(thumbnailUrlOf(data))
          THEN /\ pc' = "fetchThumb"
               /\ figmaRequests' = figmaRequests + 1
               /\ UNCHANGED figmaImage
          ELSE /\ pc' = AfterAwait("fetch")
               /\ figmaImage' = JNull
               /\ UNCHANGED figmaRequests
    /\ UNCHANGED << stage, outcome, env, config, cstep, browserVar, session, auditResults,
                    auditData, collectCalls, gen, genRet, genLog, genCalls, plan,
                    designAnalysis, caught, response >>
    /\ UNCHANGED << col, launched, latest, panel >>

\* await fetch(data.thumbnailUrl) settles: a rejection is caught and null
\* returned, a response has its arrayBuffer() called.
FetchThumb ==
    /\ pc = "fetchThumb"
    /\ \E resp \in ThumbResponses :
          IF resp.k # "throw"
          THEN /\ pc' = "fetchThumbBody"
               /\ UNCHANGED << figmaImage, outcome, response >>
          ELSE LET r == thumbnail(resp)
               IN  IF r.k = "throw"
                   THEN /\ MissionThrow(r)
                        /\ UNCHANGED figmaImage
                   ELSE /\ figmaImage' = r
                        /\ pc' = AfterAwait("fetch")
                        /\ UNCHANGED << outcome, response >>
    /\ UNCHANGED << stage, env, config, cstep, browserVar, session, auditResults,
                    auditData, collectCalls, gen, genRet, genLog, genCalls, plan,
                    figmaRequests, designAnalysis, caught >>
    /\ UNCHANGED << col, launched, latest, panel >>

\* await imgResp.arrayBuffer() settles and the image is encoded; startMission
\* takes what fetchFigmaImage returned.
FetchThumbBody ==
    /\ pc = "fetchThumbBody"
    /\ \E img \in ThumbBodies :
          LET r == thumbnail(img)
          IN  IF r.k = "throw"
              THEN /\ MissionThrow(r)
                   /\ UNCHANGED figmaImage
              ELSE /\ figmaImage' = r
                   /\ pc' = AfterAwait("fetch")
                   /\ UNCHANGED << outcome, response >>
    /\ UNCHANGED << stage, env, config, cstep, browserVar, session, auditResults,
                    auditData, collectCalls, gen, genRet, genLog, genCalls, plan,
                    figmaRequests, designAnalysis, caught >>
    /\ UNCHANGED << col, launched, latest, panel >>

\* compare without a design image: the sentinel, and startMission goes on.
CompareSkip ==
    /\ pc = "compare"
    /\ NoDesign(figmaImage)
    /\ designAnalysis' = Sentinel
    /\ stage' = "Synthesizing"
    /\ pc' = AfterAwait("compare")
    /\ UNCHANGED << outcome, env, config, cstep, browserVar, session, auditResults,
                    auditData, collectCalls, gen, genRet, genLog, genCalls, plan,
                    figmaImage, figmaRequests, caught, response >>
    /\ UNCHANGED << col, launched, latest, panel >>

\* compare with a design image, up to its await.
CompareCall ==
    /\ pc = "compare"
    /\ ~NoDesign(figmaImage)
    /\ GenerateCall("compare", << auditData.screenshot, figmaImage >>,
                    preferredModelOf("compare", config.llmModel))
    /\ UNCHANGED << stage, outcome, env, config, cstep, browserVar, session, auditResults,
                    auditData, collectCalls, genLog, plan, figmaImage, figmaRequests,
                    designAnalysis, caught, response >>
    /\ UNCHANGED << col, launched, latest, panel >>

\* compare after its await, and startMission taking its result.
CompareReturn ==
    /\ pc = "generated"
    /\ gen.stage = "compare"
    /\ LET r == compare(genRet)
       IN  IF r.k = "throw"
           THEN /\ MissionThrow(r)
                /\ UNCHANGED << designAnalysis, stage >>
           ELSE /\ designAnalysis' = r
                /\ stage' = "Synthesizing"
                /\ pc' = AfterAwait("compare")
                /\ UNCHANGED << outcome, response >>
    /\ gen' = NoGen
    /\ genRet' = NoRet
    /\ UNCHANGED << env, config, cstep, browserVar, session, auditResults, auditData,
                    collectCalls, genLog, genCalls, plan, figmaImage, figmaRequests,
                    caught >>
    /\ UNCHANGED << col, launched, latest, panel >>

\* The synthesis prompt is built and generate is called with llmModel.
SynthCall ==
    /\ pc = "synth"
    /\ GenerateCall("synth", << auditData.screenshot >>,
                    preferredModelOf("synth", config.llmModel))
    /\ UNCHANGED << stage, outcome, env, config, cstep, browserVar, session, auditResults,
                    auditData, collectCalls, genLog, plan, figmaImage, figmaRequests,
                    designAnalysis, caught, response >>
    /\ UNCHANGED << col, launched, latest, panel >>

\* After the synthesis call: strip the fences, parse, compose the result.
SynthReturn ==
    /\ pc = "generated"
    /\ gen.stage = "synth"
    /\ \E finalJson \in { finalJsonOf(genRet) } :
           IF finalJson.k = "throw"
           THEN MissionThrow(finalJson)
           ELSE MissionReturn(MissionResult(finalJson, auditData.screenshot,
                                            figmaImage, config.figmaFile))
    /\ gen' = NoGen
    /\ genRet' = NoRet
    /\ UNCHANGED << stage, env, config, cstep, browserVar, session, auditResults,
                    auditData, collectCalls, genLog, genCalls, plan, figmaImage,
                    figmaRequests, designAnalysis, caught >>
    /\ UNCHANGED << col, launched, latest, panel >>

Next ==
    \/ StartTest
    \/ BrowserCallOk
    \/ BrowserCallFails
    \/ CollectCatch
    \/ CollectCatchCloseFails
    \/ CollectReturn
    \/ PlanCall
    \/ AttemptFails
    \/ AttemptSucceeds
    \/ Exhausted
    \/ PlanReturn
    \/ FetchSkip
    \/ FetchMeta
    \/ FetchMetaBody
    \/ FetchThumb
    \/ FetchThumbBody
    \/ CompareSkip
    \/ CompareCall
    \/ CompareReturn
    \/ SynthCall
    \/ SynthReturn

Spec == Init /\ [][Next]_vars

\* The same mission when every awaited call eventually returns or throws and
\* the event loop then runs the continuation: a step that can be taken is
\* eventually taken.
SpecFair == Init /\ [][Next]_vars /\ WF_vars(Next)

\* The design comparator on its own: a mission that has just left Planning,
\* with every combination of missing, empty and present credentials, followed
\* until compare has returned or thrown.
InitDesign ==
    /\ pc = "fetch"
    /\ stage = "Comparing"
    /\ outcome = "none"
    /\ env \in {JUndef, JStr(""), JStr("envtok")}
    /\ config \in [url : {JStr("https://example.com")},
                   device : {JStr("desktop")},
                   figmaToken : {JUndef, JStr(""), JStr("tok")},
                   figmaFile : {JUndef, JStr(""), JStr("key")},
                   llmModel : {JUndef}]
    /\ cstep = Len(CollectSteps) + 1
    /\ browserVar = TRUE
    /\ session = "closed"
    /\ auditResults = Capture("evaluate", Capture("screenshot", Capture("title", AuditInit)))
    /\ auditData = auditResults
    /\ collectCalls = 1
    /\ gen = NoGen
    /\ genRet = NoRet
    /\ genLog = [s \in GenStages |->
                   IF s = "plan"
                   THEN << [model |-> FallbackChain[1].v, parts |-> << auditData.screenshot >>,
                            ok |-> TRUE, text |-> << PlanDocOne >>] >>
                   ELSE << >>]
    /\ genCalls = [s \in GenStages |-> IF s = "plan" THEN 1 ELSE 0]
    /\ plan = PlanOne
    /\ figmaImage = JUndef
    /\ figmaRequests = IF FetchSkipped(figmaAuth, config.figmaFile) THEN 0 ELSE 1
    /\ designAnalysis = JUndef
    /\ caught = JUndef
    /\ response = NoResponse
    /\ col = [m \in Missions |-> NoInvocation]
    /\ launched = {}
    /\ latest = 0
    /\ panel = PanelInit

NextDesign ==
    \/ FetchSkip
    \/ FetchMeta
    \/ FetchMetaBody
    \/ FetchThumb
    \/ FetchThumbBody
    \/ CompareSkip
    \/ CompareCall
    \/ AttemptFails
    \/ AttemptSucceeds
    \/ Exhausted
    \/ CompareReturn

SpecDesign == InitDesign /\ [][NextDesign]_vars

----------------------------------------------------------------------------
(* Missions running at the same time: their executeAudit invocations, with *)
(* the console messages and responses their pages emit.                    *)

PageEventsSeen == col[1].events + col[2].events

\* The page of mission m exists and its browser is open: it may emit events.
\* This lasts until a browser.close() settles, that of the try block or that
\* of the catch block.
PageLive(m) ==
    /\ col[m].pc \in {"collect", "collectCatch", "thrown"}
    /\ col[m].cstep > 3
    /\ col[m].cstep <= Len(CollectSteps) + 1
    /\ col[m].session = "open"

\* The record that stands for the browser the local variable browser of
\* invocation m refers to: the record of the invocation that launched it (the
\* own record while browser is still unassigned, and nothing is called on it).
BrowserOf(m) == IF col[m].browser # 0 THEN col[m].browser ELSE m

\* A request arrives: the handler runs startMission into executeAudit, up to
\* its first await (chromium.launch).
ColStart(m) ==
    /\ col[m].pc = "idle"
    /\ col' = [col EXCEPT ![m] = [NoInvocation EXCEPT !.pc = "collect",
                                                      !.url = UrlOf(m),
                                                      !.stage = "Collecting",
                                                      !.cstep = 1]]
    /\ latest' = m
    /\ UNCHANGED << missionVars, launched, panel >>

\* A browser call of mission m returns and its continuation runs to the next
\* await: after chromium.launch it calls browser.newContext, after
\* page.evaluate it calls browser.close().
ColCallOk(m) ==
    /\ col[m].pc = "collect"
    /\ col[m].cstep <= Len(CollectSteps)
    /\ LET step == CollectSteps[col[m].cstep]
           id == m
       IN  /\ launched' = IF step = "launch" THEN launched \cup {m} ELSE launched
           /\ col' = [col EXCEPT
                        ![m].browser = IF step = "launch" THEN id ELSE @,
                        ![m].session = IF step = "launch" THEN "open" ELSE @,
                        ![id].users = IF step \in {"launch", "evaluate"} THEN @ \cup {m} ELSE @,
                        ![m].observers = IF step = ObserversAttachedAfter
                                         THEN {"console", "response"} ELSE @,
                        ![m].ar = Capture(step, @),
                        ![m].cstep = @ + 1]
    /\ UNCHANGED << missionVars, latest, panel >>

\* A browser call of mission m, or the browser.close() of its try block,
\* throws: the catch block is entered and calls browser.close() if a browser
\* was launched.
ColCallFails(m) ==
    /\ col[m].pc = "collect"
    /\ col[m].cstep <= Len(CollectSteps) + 1
    /\ \E cause \in Causes(CollectStepAt(col[m].cstep)) :
          col' = [col EXCEPT ![m].caught = JThrow("Error", << cause >>),
                             ![BrowserOf(m)].users = IF col[m].browser # 0 THEN @ \cup {m} ELSE @,
                             ![m].pc = "collectCatch"]
    /\ UNCHANGED << missionVars, launched, latest, panel >>

\* The catch block of mission m when no browser was launched or its
\* browser.close() resolves: executeAudit throws the AuditFailure.
ColCatch(m) ==
    /\ col[m].pc = "collectCatch"
    /\ col' = [col EXCEPT ![m].result = AuditFailure(col[m].caught),
                          ![m].session = CatchRelease(col[m].browser # 0, @),
                          ![m].outcome = "Failed",
                          ![m].response = HandlerCatch(AuditFailure(col[m].caught)),
                          ![m].pc = "thrown"]
    /\ UNCHANGED << missionVars, launched, latest, panel >>

\* The catch block of mission m when its browser.close() rejects: executeAudit
\* rejects with the error of the close, the browser is not released.
ColCatchCloseFails(m) ==
    /\ col[m].pc = "collectCatch"
    /\ col[m].browser # 0
    /\ \E cause \in Causes("catchClose") :
          col' = [col EXCEPT ![m].result = JThrow("Error", << cause >>),
                             ![m].outcome = "Failed",
                             ![m].response = HandlerCatch(JThrow("Error", << cause >>)),
                             ![m].pc = "thrown"]
    /\ UNCHANGED << missionVars, launched, latest, panel >>

\* await browser.close() resolves; return auditResults;
ColReturn(m) ==
    /\ col[m].pc = "collect"
    /\ col[m].cstep = Len(CollectSteps) + 1
    /\ col' = [col EXCEPT ![m].result = col[m].ar,
                          ![m].session = "closed",
                          ![m].stage = "Planning",
                          ![m].pc = "returned"]
    /\ UNCHANGED << missionVars, launched, latest, panel >>

\* The page of mission m emits a console message: its console observer runs.
PageConsole(m) ==
    /\ PageLive(m)
    /\ PageEventsSeen < MaxPageEvents
    /\ \E msg \in ConsoleEvents :
          LET t == ObserverTarget(m, latest)
          IN  col' = [col EXCEPT
                        ![m].seen = Append(@, msg),
                        ![m].events = @ + 1,
                        ![t].ar = IF "console" \in col[m].observers
                                  THEN onConsole(@, msg) ELSE @]
    /\ UNCHANGED << missionVars, launched, latest, panel >>

\* The page of mission m receives a response: its response observer runs.
PageResponse(m) ==
    /\ PageLive(m)
    /\ PageEventsSeen < MaxPageEvents
    /\ \E resp \in ResponseEvents :
          LET t == ObserverTarget(m, latest)
          IN  col' = [col EXCEPT
                        ![m].seen = Append(@, resp),
                        ![m].events = @ + 1,
                        ![t].ar = IF "response" \in col[m].observers
                                  THEN onResponse(@, resp, col[m].url) ELSE @]
    /\ UNCHANGED << missionVars, launched, latest, panel >>

InitCollect == Init /\ env = JUndef

NextCollect ==
    \E m \in Missions :
        \/ ColStart(m)
        \/ ColCallOk(m)
        \/ ColCallFails(m)
        \/ ColCatch(m)
        \/ ColCatchCloseFails(m)
        \/ ColReturn(m)
        \/ PageConsole(m)
        \/ PageResponse(m)

SpecCollect == InitCollect /\ [][NextCollect]_vars

----------------------------------------------------------------------------
(* Whole missions running together: after its executeAudit has returned,   *)
(* each startMission activation goes on through createTestPlan,            *)
(* fetchFigmaImage, compare and the synthesis call, interleaved with the   *)
(* other at every await.                                                   *)

\* The request body of each mission, as startMission receives it.
ConfigOf(m) ==
    IF m = 1
    THEN [url |-> JStr(UrlA), device |-> JStr("mobile"), figmaToken |-> JStr("tok"),
          figmaFile |-> JStr("key"), llmModel |-> JStr("gemini-2.5-pro")]
    ELSE [url |-> JStr(UrlB), device |-> JStr("desktop"), figmaToken |-> JUndef,
          figmaFile |-> JStr(""), llmModel |-> JUndef]

\* The text the generative API answers a request of mission m with.
MissionTexts(m, st) ==
    IF m = 1
    THEN CASE st = "plan" -> { << PlanDocOne >> }
           [] st = "compare" -> { << "Header colour differs." >> }
           [] st = "synth" -> { << ReportPassDoc >> }
    ELSE CASE st = "plan" -> { << FenceJson, NL, PlanDocTwo, NL, Fence >> }
           [] st = "compare" -> { << "The \"Buy\" button is missing." >> }
           [] st = "synth" -> { << ReportShadowDoc >> }

\* const figmaAuth = figmaToken || process.env.FIGMA_ACCESS_TOKEN
figmaAuthOf(m) == Or(ConfigOf(m).figmaToken, env)

\* await this.ai.generate(prompt, parts, preferredModel) entered by mission m.
GenerateCallOf(c, st, parts, preferredModel) ==
    [c EXCEPT !.gen = [stage |-> st, models |-> modelsToTry(preferredModel), i |-> 1,
                       parts |-> parts],
              !.genRet = NoRet,
              !.pc = "generate"]

\* startMission of mission m rejects: the handler's catch answers 500.
MissionThrowOf(c, err) ==
    [c EXCEPT !.outcome = "Failed", !.pc = "end", !.response = HandlerCatch(err)]

\* startMission takes the record executeAudit returned and calls
\* createTestPlan, which calls generate.  The invocation of executeAudit is
\* over: its page is gone, and the events it emitted with it.
MPlanCall(m) ==
    /\ col[m].pc = "returned"
    /\ LET c == [col[m] EXCEPT !.seen = << >>]
       IN  col' = [col EXCEPT ![m] =
                     IF ConfigOf(m).device.k = "str"
                     THEN GenerateCallOf(c, "plan", << col[m].result.screenshot >>,
                                         preferredModelOf("plan", ConfigOf(m).llmModel))
                     ELSE MissionThrowOf(c, JThrow("TypeError",
                                           << "Cannot read properties of ",
                                              ConfigOf(m).device.k >>))]
    /\ UNCHANGED << missionVars, launched, latest, panel >>

\* The completion request of mission m for its current candidate throws.
MAttemptFails(m) ==
    /\ col[m].pc = "generate"
    /\ ~LoopDone(col[m].gen)
    /\ col' = [col EXCEPT ![m].gen = AfterFailure(@)]
    /\ UNCHANGED << missionVars, launched, latest, panel >>

\* The completion request of mission m answers: its generate call returns.
MAttemptSucceeds(m) ==
    /\ col[m].pc = "generate"
    /\ ~LoopDone(col[m].gen)
    /\ \E text \in MissionTexts(m, col[m].gen.stage) :
          col' = [col EXCEPT ![m].genRet = [ok |-> TRUE, text |-> text, error |-> JUndef],
                             ![m].pc = "generated"]
    /\ UNCHANGED << missionVars, launched, latest, panel >>

\* The loop of mission m ran out of candidates: its generate call throws.
MExhausted(m) ==
    /\ col[m].pc = "generate"
    /\ LoopDone(col[m].gen)
    /\ col' = [col EXCEPT ![m].genRet = [ok |-> FALSE, text |-> << >>,
                                         error |-> ProviderExhausted],
                          ![m].pc = "generated"]
    /\ UNCHANGED << missionVars, launched, latest, panel >>

\* createTestPlan of mission m after its await; startMission takes the plan
\* and calls fetchFigmaImage, which sends the file request unless a credential
\* is missing.
MPlanReturn(m) ==
    /\ col[m].pc = "generated"
    /\ col[m].gen.stage = "plan"
    /\ LET r == createTestPlan(col[m].genRet)
           c == [col[m] EXCEPT !.answers["plan"] = col[m].genRet,
                               !.gen = NoGen, !.genRet = NoRet]
       IN  col' = [col EXCEPT ![m] =
                     IF r.k = "throw"
                     THEN MissionThrowOf(c, r)
                     ELSE [c EXCEPT !.plan = r,
                                    !.stage = "Comparing",
                                    !.figmaRequests =
                                        IF FetchSkipped(figmaAuthOf(m), ConfigOf(m).figmaFile)
                                        THEN @ ELSE @ + 1,
                                    !.pc = AfterAwait("plan")]]
    /\ UNCHANGED << missionVars, launched, latest, panel >>

\* fetchFigmaImage of mission m returns null at once: a credential is missing.
MFetchSkip(m) ==
    /\ col[m].pc = "fetch"
    /\ FetchSkipped(figmaAuthOf(m), ConfigOf(m).figmaFile)
    /\ col' = [col EXCEPT ![m].figmaImage = JNull, ![m].pc = AfterAwait("fetch")]
    /\ UNCHANGED << missionVars, launched, latest, panel >>

\* await fetch(...) of the file request of mission m settles.
MFetchMeta(m) ==
    /\ col[m].pc = "fetch"
    /\ ~FetchSkipped(figmaAuthOf(m), ConfigOf(m).figmaFile)
    /\ \E resp \in MetaResponses :
          col' = [col EXCEPT ![m] =
                    IF resp.k = "throw"
                    THEN [@ EXCEPT !.figmaImage = thumbnailUrlOf(resp),
                                   !.pc = AfterAwait("fetch")]
                    ELSE [@ EXCEPT !.pc = "fetchMetaBody"]]
    /\ UNCHANGED << missionVars, launched, latest, panel >>

\* await resp.json() of mission m settles: with a thumbnailUrl the thumbnail
\* request is sent.
MFetchMetaBody(m) ==
    /\ col[m].pc = "fetchMetaBody"
    /\ \E data \in MetaBodies :
          col' = [col EXCEPT ![m] =
                    IF Truthy(thumbnailUrlOf(data))
                    THEN [@ EXCEPT !.figmaRequests = @ + 1, !.pc = "fetchThumb"]
                    ELSE [@ EXCEPT !.figmaImage = JNull, !.pc = AfterAwait("fetch")]]
    /\ UNCHANGED << missionVars, launched, latest, panel >>

\* await fetch(data.thumbnailUrl) of mission m settles.
MFetchThumb(m) ==
    /\ col[m].pc = "fetchThumb"
    /\ \E resp \in ThumbResponses :
          col' = [col EXCEPT ![m] =
                    IF resp.k # "throw"
                    THEN [@ EXCEPT !.pc = "fetchThumbBody"]
                    ELSE LET r == thumbnail(resp)
                         IN  IF r.k = "throw"
                             THEN MissionThrowOf(@, r)
                             ELSE [@ EXCEPT !.figmaImage = r, !.pc = AfterAwait("fetch")]]
    /\ UNCHANGED << missionVars, launched, latest, panel >>

\* await imgResp.arrayBuffer() of mission m settles and the image is encoded.
MFetchThumbBody(m) ==
    /\ col[m].pc = "fetchThumbBody"
    /\ \E img \in ThumbBodies :
          col' = [col EXCEPT ![m] =
                    LET r == thumbnail(img)
                    IN  IF r.k = "throw"
                        THEN MissionThrowOf(@, r)
                        ELSE [@ EXCEPT !.figmaImage = r, !.pc = AfterAwait("fetch")]]
    /\ UNCHANGED << missionVars, launched, latest, panel >>

\* compare of mission m without a design image: the sentinel.
MCompareSkip(m) ==
    /\ col[m].pc = "compare"
    /\ NoDesign(col[m].figmaImage)
    /\ col' = [col EXCEPT ![m].designAnalysis = Sentinel,
                          ![m].stage = "Synthesizing",
                          ![m].pc = AfterAwait("compare")]
    /\ UNCHANGED << missionVars, launched, latest, panel >>

\* compare of mission m with a design image, up to its await.
MCompareCall(m) ==
    /\ col[m].pc = "compare"
    /\ ~NoDesign(col[m].figmaImage)
    /\ col' = [col EXCEPT ![m] =
                 GenerateCallOf(@, "compare",
                                << col[m].result.screenshot, col[m].figmaImage >>,
                                preferredModelOf("compare", ConfigOf(m).llmModel))]
    /\ UNCHANGED << missionVars, launched, latest, panel >>

\* compare of mission m after its await; startMission takes its result.
MCompareReturn(m) ==
    /\ col[m].pc = "generated"
    /\ col[m].gen.stage = "compare"
    /\ LET r == compare(col[m].genRet)
           c == [col[m] EXCEPT !.answers["compare"] = col[m].genRet,
                               !.gen = NoGen, !.genRet = NoRet]
       IN  col' = [col EXCEPT ![m] =
                     IF r.k = "throw"
                     THEN MissionThrowOf(c, r)
                     ELSE [c EXCEPT !.designAnalysis = r,
                                    !.stage = "Synthesizing",
                                    !.pc = AfterAwait("compare")]]
    /\ UNCHANGED << missionVars, launched, latest, panel >>

\* Mission m builds its synthesis prompt and calls generate with llmModel.
MSynthCall(m) ==
    /\ col[m].pc = "synth"
    /\ col' = [col EXCEPT ![m] =
                 GenerateCallOf(@, "synth", << col[m].result.screenshot >>,
                                preferredModelOf("synth", ConfigOf(m).llmModel))]
    /\ UNCHANGED << missionVars, launched, latest, panel >>

\* Mission m after its synthesis call: strip the fences, parse, compose the
\* result; the handler answers.
MSynthReturn(m) ==
    /\ col[m].pc = "generated"
    /\ col[m].gen.stage = "synth"
    /\ LET finalJson == finalJsonOf(col[m].genRet)
           c == [col[m] EXCEPT !.answers["synth"] = col[m].genRet,
                               !.gen = NoGen, !.genRet = NoRet]
       IN  col' = [col EXCEPT ![m] =
                     IF finalJson.k = "throw"
                     THEN MissionThrowOf(c, finalJson)
                     ELSE [c EXCEPT !.outcome = "Done",
                                    !.pc = "end",
                                    !.response =
                                        HandlerReturn(MissionResult(finalJson,
                                            col[m].result.screenshot, col[m].figmaImage,
                                            ConfigOf(m).figmaFile))]]
    /\ UNCHANGED << missionVars, launched, latest, panel >>

InitMissions == Init /\ env = JStr("envtok")

NextMissions ==
    \E m \in Missions :
        \/ ColStart(m)
        \/ ColCallOk(m)
        \/ ColCallFails(m)
        \/ ColCatch(m)
        \/ ColCatchCloseFails(m)
        \/ ColReturn(m)
        \/ PageConsole(m)
        \/ PageResponse(m)
        \/ MPlanCall(m)
        \/ MAttemptFails(m)
        \/ MAttemptSucceeds(m)
        \/ MExhausted(m)
        \/ MPlanReturn(m)
        \/ MFetchSkip(m)
        \/ MFetchMeta(m)
        \/ MFetchMetaBody(m)
        \/ MFetchThumb(m)
        \/ MFetchThumbBody(m)
        \/ MCompareSkip(m)
        \/ MCompareCall(m)
        \/ MCompareReturn(m)
        \/ MSynthCall(m)
        \/ MSynthReturn(m)

SpecMissions == InitMissions /\ [][NextMissions]_vars

----------------------------------------------------------------------------
(* The control panel: clicks on the device selectors and on the start      *)
(* button, and the requests of a run settling.                             *)

\* A device selector is clicked.
ToggleClick ==
    /\ \E device \in {"mobile", "tablet", "desktop"} :
          panel' = toggleDevice(panel, device)
    /\ UNCHANGED << missionVars, col, launched, latest >>

\* The start button (disabled while status is running) is clicked: startTest
\* runs up to the fetch of the first device, or alerts and returns when no
\* device is selected.
StartClick ==
    /\ panel.status # "running"
    /\ LET devicesToRun == devicesToRunOf(panel.selectedDevices)
       IN  IF devicesToRun = << >>
           THEN panel' = panel
           ELSE panel' = [panel EXCEPT
                            !.status = "running",
                            !.report = JNull,
                            !.run = [pc |-> "await", devicesToRun |-> devicesToRun,
                                     sent |-> << devicesToRun[1] >>, results |-> << >>],
                            !.inFlight = @ + 1]
    /\ UNCHANGED << missionVars, col, launched, latest >>

\* startTest after runTestForDevice has returned entry: the entry is pushed and
\* the loop sends the next device's request or, after the last one, sets
\* status to finished and publishes the report.
afterRunTestForDevice(p, entry) ==
    LET run == p.run
        results == Append(run.results, entry)
    IN  IF Len(results) < Len(run.devicesToRun)
        THEN [p EXCEPT !.run.pc = "await",
                       !.run.results = results,
                       !.run.sent = Append(@, run.devicesToRun[Len(results) + 1])]
        ELSE [p EXCEPT !.status = "finished",
                       !.report = finalReport(results),
                       !.run = NoRun,
                       !.inFlight = @ - 1]

\* await fetch(...) of the request in flight settles: an ok response has its
\* json() called; a rejection or a response that is not ok is thrown into the
\* catch block of runTestForDevice, which returns the error entry.
FetchSettles ==
    /\ panel.run.pc = "await"
    /\ \E answer \in FetchAnswers :
          LET device == panel.run.sent[Len(panel.run.sent)]
          IN  IF answer = "ok"
              THEN panel' = [panel EXCEPT !.run.pc = "json"]
              ELSE panel' = afterRunTestForDevice(panel,
                               runTestForDevice(device, [k |-> "throw"]))
    /\ UNCHANGED << missionVars, col, launched, latest >>

\* await response.json() settles: runTestForDevice returns its entry.
BodySettles ==
    /\ panel.run.pc = "json"
    /\ \E body \in BodyAnswers :
          LET device == panel.run.sent[Len(panel.run.sent)]
          IN  panel' = afterRunTestForDevice(panel, runTestForDevice(device, body))
    /\ UNCHANGED << missionVars, col, launched, latest >>

InitPanel == Init /\ env = JUndef

NextPanel ==
    \/ ToggleClick
    \/ StartClick
    \/ FetchSettles
    \/ BodySettles

SpecPanel == InitPanel /\ [][NextPanel]_vars

\* The state of the mission in the orchestrator's state machine.
MissionState == IF outcome = "none" THEN stage ELSE outcome

TypeOK ==
    /\ pc \in {"idle", "collect", "collectCatch", "plan", "generate", "generated",
               "fetch", "fetchMetaBody", "fetchThumb", "fetchThumbBody", "compare", "synth", "end"}
    /\ stage \in {"Idle", "Collecting", "Planning", "Comparing", "Synthesizing"}
    /\ outcome \in {"none", "Done", "Failed"}
    /\ session \in {"none", "open", "closed"}
    /\ cstep \in 0..(Len(CollectSteps) + 1)

----------------------------------------------------------------------------
(* Properties                                                              *)

\* The generate call in progress, or just returned and not yet consumed.
InGenerate == pc \in {"generate", "generated"}

AllFailed(L) == \A j \in 1..Len(L) : ~L[j].ok

\* C1: in a generate call the completion requests follow the candidate list in
\* order, one per candidate; every request before the last one failed; a request
\* that succeeds is the last one, generate has then returned, and the text it
\* returned is that request's response.  So when the first k-1 candidates fail
\* and the k-th succeeds exactly k requests are made.
C1_FallbackInOrder ==
    /\ \A st \in GenStages :
          LET L == genLog[st]
          IN  \A j \in 1..(Len(L) - 1) : ~L[j].ok
    /\ InGenerate =>
          LET L == genLog[gen.stage]
          IN  /\ Len(L) <= Len(gen.models)
              /\ \A j \in 1..Len(L) : L[j].model = gen.models[j].v
              /\ (pc = "generate") => (AllFailed(L) /\ gen.i = Len(L) + 1)
              /\ (pc = "generated" /\ genRet.ok) =>
                    /\ L # << >>
                    /\ L[Len(L)].ok
                    /\ genRet.text = L[Len(L)].text
              /\ (L # << >> /\ L[Len(L)].ok) => (pc = "generated" /\ genRet.ok)

\* C1 witness: the third candidate answered after two failures.
C1_Witness ==
    /\ pc = "generated"
    /\ genRet.ok
    /\ Len(genLog[gen.stage]) = 3
    /\ ~genLog[gen.stage][1].ok
    /\ ~genLog[gen.stage][2].ok

\* C2: generate throws only after one failed request per candidate, with the
\* "All AI agents failed to respond." error and no text; and when every
\* candidate has failed it does throw.
C2_ExhaustedAfterN ==
    (pc = "generated") =>
        LET L == genLog[gen.stage]
        IN  /\ ~genRet.ok =>
                 /\ Len(L) = Len(gen.models)
                 /\ AllFailed(L)
                 /\ \A j \in 1..Len(L) : L[j].model = gen.models[j].v
                 /\ genRet.error.k = "throw"
                 /\ genRet.error.message = << "All AI agents failed to respond." >>
                 /\ genRet.text = << >>
            /\ (Len(L) = Len(gen.models) /\ AllFailed(L)) => ~genRet.ok

\* C2 witness: five candidates (a preferred model and the chain), all failed.
C2_Witness ==
    /\ pc = "generated"
    /\ ~genRet.ok
    /\ Len(gen.models) = 5
    /\ Len(genLog[gen.stage]) = 5

NoDuplicates(seq) == \A i, j \in 1..Len(seq) : i # j => seq[i] # seq[j]

\* C3 (as claimed): the candidate list holds no empty entry and no duplicate,
\* and within one generate call no model is requested twice.
C3_NoModelTwice ==
    /\ InGenerate =>
          /\ NoDuplicates(gen.models)
          /\ \A j \in 1..Len(gen.models) : Truthy(gen.models[j])
    /\ \A st \in GenStages : NoDuplicates([j \in 1..Len(genLog[st]) |-> genLog[st][j].model])

\* C4 (as claimed, for requests whose device is a string): a mission fails only
\* in Collecting or in Synthesizing.
C4_FailedOnlyFromCollectingOrSynthesizing ==
    (outcome = "Failed" /\ config.device.k = "str") => stage \in {"Collecting", "Synthesizing"}

\* C4 (amended): for a request whose device is a string a mission fails only in
\* Collecting, Comparing or Synthesizing, never in Planning; it fails in
\* Comparing exactly when a design image was fetched and every candidate of the
\* comparison call failed, and otherwise Comparing advances to Synthesizing.
C4_FailedFromThreeStages ==
    LET L == genLog["compare"]
        compareExhausted == Len(L) = Len(FallbackChain) /\ AllFailed(L)
    IN  /\ (outcome = "Failed" /\ config.device.k = "str") =>
              stage \in {"Collecting", "Comparing", "Synthesizing"}
        /\ (outcome = "Failed" /\ stage = "Planning") =>
              (config.device.k # "str" /\ genCalls["plan"] = 0)
        /\ (outcome = "Failed" /\ stage = "Comparing") =>
              (Truthy(figmaImage) /\ compareExhausted)
        /\ (compareExhausted /\ ~InGenerate) => (outcome = "Failed" /\ stage = "Comparing")
        /\ (stage = "Synthesizing") =>
              /\ genCalls["plan"] = 1
              /\ Truthy(figmaImage) => (L # << >> /\ L[Len(L)].ok)

\* C4 witness: a mission that failed in Comparing, after a plan was produced.
C4_Witness ==
    /\ outcome = "Failed"
    /\ stage = "Comparing"
    /\ config.device.k = "str"
    /\ plan.k = "arr"

\* C5: when a design image is present and every candidate of the comparison
\* call fails, compare yields no text: the mission ends in Failed in the
\* Comparing stage with the provider's error as the 500 response and no
\* synthesis call is made; the same failure in the plan call is absorbed and
\* the mission goes on to Comparing with the fallback plan.
C5_CompareFailurePropagates ==
    LET LC == genLog["compare"]
        LP == genLog["plan"]
    IN  /\ (Len(LC) = Len(FallbackChain) /\ AllFailed(LC) /\ ~InGenerate) =>
              /\ Truthy(figmaImage)
              /\ outcome = "Failed"
              /\ stage = "Comparing"
              /\ designAnalysis = JUndef
              /\ genCalls["synth"] = 0
              /\ response.status = 500
              /\ response.body.error = << "All AI agents failed to respond." >>
        /\ (Len(LP) = Len(FallbackChain) /\ AllFailed(LP) /\ ~(InGenerate /\ gen.stage = "plan")) =>
              /\ stage # "Planning"
              /\ plan.k = "arr"

\* C5 witness: the 500 response of a mission whose comparison call was exhausted.
C5_Witness ==
    /\ outcome = "Failed"
    /\ stage = "Comparing"
    /\ Truthy(figmaImage)
    /\ response.status = 500
    /\ Len(genLog["compare"]) = Len(FallbackChain)
    /\ Len(genLog["plan"]) = Len(FallbackChain)
    /\ AllFailed(genLog["plan"])

\* An AuditRecord with every captured field filled in.
FullRecord(a) ==
    /\ DOMAIN a = {"consoleLogs", "networkStatus", "screenshot", "title", "htmlSnippet"}
    /\ a.screenshot.k = "b64"
    /\ a.screenshot.len > 0
    /\ a.title = PageTitle
    /\ a.htmlSnippet = PageText

NoRequestsYet ==
    /\ \A st \in GenStages : genCalls[st] = 0 /\ genLog[st] = << >>
    /\ figmaRequests = 0

\* C6: the collector runs once; a generation or design request is made only
\* after it returned a full record and released its session; what startMission
\* holds is a full record or nothing; a mission that failed in Collecting made
\* no generation and no design request and holds no record.
C6_AuditBeforeAnyRequest ==
    /\ collectCalls <= 1
    /\ ~NoRequestsYet => (collectCalls = 1 /\ auditData # JUndef /\ session = "closed")
    /\ auditData # JUndef => FullRecord(auditData)
    /\ stage \in {"Planning", "Comparing", "Synthesizing"} => auditData # JUndef
    /\ (outcome = "Failed" /\ stage = "Collecting") =>
          /\ NoRequestsYet
          /\ auditData = JUndef
          /\ plan = JUndef
          /\ response.status = 500

\* C6 witness: navigation timed out and the mission failed without any request.
C6_Witness ==
    /\ outcome = "Failed"
    /\ stage = "Collecting"
    /\ caught # JUndef
    /\ caught.message = << "page.goto: Timeout 45000ms exceeded." >>
    /\ response.body.error = << "Executor Audit Failed: ", "page.goto: Timeout 45000ms exceeded." >>
    /\ auditResults.screenshot = JNull

\* C7 (as claimed): once executeAudit has returned or thrown, the browser
\* session it launched is not open any more.
C7_SessionReleased ==
    (pc \notin {"idle", "collect", "collectCatch"}) => session # "open"

\* C8: when every candidate of the plan call has failed, createTestPlan does
\* not fail the mission and returns exactly
\* [{id: 0, action: "Fallback Plan", expectation: "Verify Page Load"}].
C8_FallbackPlanOnGenerationFailure ==
    LET L == genLog["plan"]
    IN  (Len(L) = Len(FallbackChain) /\ AllFailed(L) /\ ~(InGenerate /\ gen.stage = "plan")) =>
            /\ plan = [k |-> "arr",
                       v |-> << [k |-> "obj",
                                 v |-> [id |-> [k |-> "num", v |-> 0],
                                        action |-> [k |-> "str", v |-> "Fallback Plan"],
                                        expectation |-> [k |-> "str", v |-> "Verify Page Load"]]] >>]
            /\ stage \in {"Comparing", "Synthesizing"}

\* C8 witness: the plan call was exhausted and the mission is in Comparing.
C8_Witness ==
    /\ Len(genLog["plan"]) = Len(FallbackChain)
    /\ AllFailed(genLog["plan"])
    /\ stage = "Comparing"
    /\ pc = "fetch"

\* C9 (as claimed): what createTestPlan returned is in every case a sequence of
\* steps, the fallback step when the response lacks a test_plan array.
C9_PlanIsAlwaysASequence ==
    (stage \in {"Comparing", "Synthesizing"}) =>
        /\ plan.k = "arr"
        /\ LET L == genLog["plan"]
               parsed == JSONParse(cleanJson(L[Len(L)].text))
           IN  (L # << >> /\ L[Len(L)].ok
                  /\ (parsed.k # "obj" \/ "test_plan" \notin DOMAIN parsed.v))
                 => plan = FallbackPlan

\* C10 (as claimed): the status of the report of a success response is pass,
\* fail or warning.
C10_StatusInClosedSet ==
    (response.status = 200) =>
        /\ "status" \in DOMAIN response.body.data
        /\ response.body.data["status"] \in {JStr("pass"), JStr("fail"), JStr("warning")}

\* The synthesis call is over and its outcome has been taken by startMission.
SynthOver == genCalls["synth"] = 1 /\ ~InGenerate

\* C11: when every candidate of the synthesis call failed, or the text it
\* returned is not JSON once the fences are stripped, the mission ends in
\* Failed from Synthesizing and the response is 500 {success: false, error}
\* with no data field: no report, whole or partial, is returned.
C11_SynthesisFailureIsFatal ==
    LET L == genLog["synth"]
        exhausted == L # << >> /\ ~L[Len(L)].ok
        unparseable == L # << >> /\ L[Len(L)].ok
                          /\ JSONParse(cleanJson(L[Len(L)].text)).k = "throw"
    IN  (SynthOver /\ (exhausted \/ unparseable)) =>
            /\ outcome = "Failed"
            /\ stage = "Synthesizing"
            /\ response.status = 500
            /\ response.body.success = FALSE
            /\ DOMAIN response.body = {"success", "error"}
            /\ exhausted => response.body.error = << "All AI agents failed to respond." >>

\* C11 witness: the synthesis call answered with prose, and the mission failed
\* in Synthesizing with the parser's message.
C11_Witness ==
    /\ SynthOver
    /\ genLog["synth"] # << >>
    /\ genLog["synth"][Len(genLog["synth"])].ok
    /\ genLog["synth"][Len(genLog["synth"])].text = << Prose >>
    /\ outcome = "Failed"
    /\ response.body.error = << "Unexpected token" >>

\* What holds of the response in every state, for C12.
ResponseMatchesOutcome ==
    /\ (outcome = "none") <=> (response.status = 0)
    /\ (outcome = "none") <=> (pc # "end")
    /\ (outcome = "Done") =>
          /\ response.status = 200
          /\ DOMAIN response.body = {"success", "data"}
          /\ response.body.success = TRUE
          /\ stage = "Synthesizing"
          /\ SynthOver
          /\ genLog["synth"][Len(genLog["synth"])].ok
    /\ (outcome = "Failed") =>
          /\ response.status = 500
          /\ DOMAIN response.body = {"success", "error"}
          /\ response.body.success = FALSE

\* C12: a request is answered when its mission ends and only then, and once:
\* with 200 {success: true, data} when the mission is Done, which happens only
\* after the synthesis call answered, and with 500 {success: false, error}, which
\* carries no data, when it Failed; a response that was sent never changes.
C12_ExactlyOneResponse ==
    /\ []ResponseMatchesOutcome
    /\ [][response.status # 0 => response' = response]_vars

\* C12 witness: a 200 response carrying the report of a mission that is Done.
C12_Witness ==
    /\ outcome = "Done"
    /\ response.status = 200
    /\ "analysis" \in DOMAIN response.body.data
    /\ figmaRequests = 2

\* fetchFigmaImage has returned to startMission.
FetchReturned == figmaImage # JUndef

\* A credential that is missing (undefined) or empty.
MissingOrEmpty(x) == x = JUndef \/ x = JNull \/ x = JStr("")

\* C13: when the token given to fetchFigmaImage or the file key is missing or
\* empty, fetchFigmaImage returns null and no request is sent to the design API.
C13_NoCredentialNoRequest ==
    (FetchReturned /\ (MissingOrEmpty(figmaAuth) \/ MissingOrEmpty(config.figmaFile))) =>
        (figmaImage = JNull /\ figmaRequests = 0)

\* C13 witness: fetchFigmaImage("", "key") has returned.
C13_Witness ==
    /\ FetchReturned
    /\ figmaAuth = JStr("")
    /\ config.figmaFile = JStr("key")
    /\ figmaRequests = 0

\* C14: compare called without a design image returns the text
\* "No Figma Design provided for comparison." and makes no generation request;
\* the comparison call is made, and its requests are sent, only with an image.
C14_NoImageNoGeneration ==
    /\ (figmaImage = JNull /\ pc # "compare") =>
          /\ designAnalysis = [k |-> "text", v |-> << "No Figma Design provided for comparison." >>]
          /\ genCalls["compare"] = 0
          /\ genLog["compare"] = << >>
    /\ (genCalls["compare"] > 0 \/ genLog["compare"] # << >>) =>
          /\ figmaImage.k = "b64"
          /\ figmaImage.len > 0
          /\ genCalls["compare"] = 1

\* C14 witness: fetchFigmaImage("tok", "") gave no image and compare returned
\* the sentinel.
C14_Witness ==
    /\ figmaAuth = JStr("tok")
    /\ config.figmaFile = JStr("")
    /\ figmaImage = JNull
    /\ designAnalysis = Sentinel
    /\ pc = "synth"
    /\ genCalls["compare"] = 0

\* C15: when the metadata request fails, the body has no thumbnail URL, or the
\* thumbnail request fails, fetchFigmaImage returns null and does not throw:
\* the mission does not fail in Comparing, compare returns the sentinel without
\* a generation call, the mission can only fail in Synthesizing, and when it is
\* Done the design status of the result is "failed".
C15_FetchFailureIsAbsorbed ==
    (figmaRequests > 0
        /\ pc \notin {"fetch", "fetchMetaBody", "fetchThumb", "fetchThumbBody"}
        /\ figmaImage.k # "b64") =>
        /\ figmaImage = JNull
        /\ ~(outcome = "Failed" /\ stage = "Comparing")
        /\ (pc # "compare") =>
              /\ designAnalysis = [k |-> "text", v |-> << "No Figma Design provided for comparison." >>]
              /\ genCalls["compare"] = 0
        /\ (outcome = "Failed") => stage = "Synthesizing"
        /\ (outcome = "Done") => response.body.data["figma_status"] = JStr("failed")

\* C15 witness: both design requests were sent, the second failed, and the
\* mission is Done with design status "failed".
C15_Witness ==
    /\ outcome = "Done"
    /\ figmaRequests = 2
    /\ figmaImage = JNull
    /\ designAnalysis = Sentinel
    /\ response.body.data["figma_status"] = JStr("failed")

\* C16: in the result of a mission that is Done, figma_status is "skipped"
\* exactly when no file key was supplied, "failed" exactly when one was supplied
\* and fetchFigmaImage returned no image (null, or the empty text of an empty
\* thumbnail body), and "success" exactly when an image was obtained; it is
\* exactly one of the three.
C16_DesignStatusTag ==
    (outcome = "Done") =>
        LET fs == response.body.data["figma_status"]
            supplied == ~MissingOrEmpty(config.figmaFile)
            obtained == figmaImage.k = "b64" /\ figmaImage.len > 0
        IN  /\ fs \in {JStr("skipped"), JStr("failed"), JStr("success")}
            /\ (fs = JStr("skipped")) <=> ~supplied
            /\ (fs = JStr("failed")) <=>
                  (supplied /\ (figmaImage = JNull
                                  \/ (figmaImage.k = "b64" /\ figmaImage.len = 0)))
            /\ (fs = JStr("success")) <=> obtained

\* C16 witness: a mission that is Done with an image fetched.
C16_Witness ==
    /\ outcome = "Done"
    /\ figmaImage.k = "b64"
    /\ response.body.data["figma_status"] = JStr("success")

\* C17 (as claimed): an exception of a browser call of the try block (launch
\* to evaluate) makes executeAudit throw "Executor Audit Failed: " followed by
\* the cause's message; the mission then ends in Failed from Collecting, the 500
\* response carries exactly that message, and executeAudit was invoked once.
C17_AuditFailureSurfaces ==
    (caught # JUndef /\ cstep <= Len(CollectSteps) /\ pc = "end") =>
        /\ outcome = "Failed"
        /\ stage = "Collecting"
        /\ collectCalls = 1
        /\ response.status = 500
        /\ response.body.error = << "Executor Audit Failed: " >> \o caught.message

\* C18 (as claimed): when the plan call answers with well-formed JSON that
\* holds a test_plan array, bare or inside code fences, createTestPlan returns
\* exactly that array: the same steps in the same order with the same ids and
\* the same texts.
C18_PlanIsTheResponseArray ==
    LET L == genLog["plan"]
        last == L[Len(L)]
        step(i, a, e) == [k |-> "obj",
                          v |-> [id |-> [k |-> "num", v |-> i],
                                 action |-> [k |-> "str", v |-> a],
                                 expectation |-> [k |-> "str", v |-> e]]]
    IN  (stage \in {"Comparing", "Synthesizing"} /\ L # << >> /\ last.ok) =>
            /\ (last.text = << PlanDocOne >>) =>
                  plan = [k |-> "arr", v |-> << step(1, "A", "B") >>]
            /\ (last.text = << FenceJson, NL, PlanDocTwo, NL, Fence >>) =>
                  plan = [k |-> "arr",
                          v |-> << step(7, "Check Header", "Logo visible"),
                                   step(3, "Click CTA", "Clickable") >>]
            /\ (last.text = << PlanDocWrapHead, Fence, PlanDocWrapTail >>) =>
                  plan = [k |-> "arr", v |-> << step(1, "Wrap in ''' fences", "B") >>]
            /\ (last.text = << Fence, TagJs, NL, PlanDocOne, NL, Fence >>) =>
                  plan = [k |-> "arr", v |-> << step(1, "A", "B") >>]

\* C19 (as claimed, for a report that carries a test plan): the test_plan of the
\* result of a mission that is Done is the plan createTestPlan returned.
C19_ReportCarriesThePlan ==
    (outcome = "Done" /\ "test_plan" \in DOMAIN response.body.data) =>
        response.body.data["test_plan"] = plan

\* The five awaited calls of a mission, seen through what they leave behind.
CallStarted(c) ==
    CASE c = "collect" -> collectCalls > 0
      [] c = "plan"    -> genCalls["plan"] > 0 \/ genLog["plan"] # << >>
      [] c = "fetch"   -> figmaRequests > 0 \/ FetchReturned
      [] c = "compare" -> genCalls["compare"] > 0 \/ genLog["compare"] # << >>
                             \/ designAnalysis # JUndef
      [] c = "synth"   -> genCalls["synth"] > 0 \/ genLog["synth"] # << >>

CallReturned(c) ==
    CASE c = "collect" -> auditData # JUndef /\ session = "closed"
      [] c = "plan"    -> stage \in {"Comparing", "Synthesizing"}
      [] c = "fetch"   -> FetchReturned
      [] c = "compare" -> designAnalysis # JUndef
      [] c = "synth"   -> outcome = "Done"

CallThrew(c) ==
    /\ outcome = "Failed"
    /\ stage = CASE c = "collect" -> "Collecting"
                 [] c = "plan"    -> "Planning"
                 [] c = "fetch"   -> "None"
                 [] c = "compare" -> "Comparing"
                 [] c = "synth"   -> "Synthesizing"

CallInFlight(c) == CallStarted(c) /\ ~CallReturned(c) /\ ~CallThrew(c)

\* The requests of a generate call are over: the last one succeeded or every
\* candidate was tried.
RequestsOver(st) ==
    LET L == genLog[st]
    IN  L # << >> /\ (L[Len(L)].ok \/ Len(L) >= Len(FallbackChain))

\* C20: the calls of a mission are strictly ordered and never overlap: collect
\* has returned before the plan call starts, which has returned before the
\* design fetch starts, which has returned before compare starts, which has
\* returned before the synthesis call starts; no request of a later call is
\* sent before the requests of an earlier one are over; at most one call is in
\* flight.
C20_CallsStrictlyOrdered ==
    /\ CallStarted("plan") => CallReturned("collect")
    /\ CallStarted("fetch") => CallReturned("plan")
    /\ CallStarted("compare") =>
          CallReturned("fetch") /\ pc \notin {"fetchMetaBody", "fetchThumb", "fetchThumbBody"}
    /\ CallStarted("synth") => CallReturned("compare")
    /\ \A a, b \in GenStages :
          (genLog[a] # << >> /\ genLog[b] # << >> /\ a # b) =>
              (RequestsOver(a) \/ RequestsOver(b))
    /\ (figmaRequests > 0 /\ genLog["plan"] # << >>) => RequestsOver("plan")
    /\ Cardinality({c \in {"collect", "plan", "fetch", "compare", "synth"} :
                        CallInFlight(c)}) <= 1

\* C20 witness: the synthesis call is in flight after the four other calls each
\* made their requests and returned.
C20_Witness ==
    /\ pc = "generate"
    /\ gen.stage = "synth"
    /\ CallInFlight("synth")
    /\ figmaRequests = 2
    /\ genLog["plan"] # << >>
    /\ genLog["compare"] # << >>
    /\ collectCalls = 1

\* The completion requests of the mission so far, per stage and in total.
Requests(st) == Len(genLog[st])
TotalRequests == Requests("plan") + Requests("compare") + Requests("synth")

\* C22: once executeAudit has returned, the record it returned never changes,
\* and the image given to the plan call, to compare as the live image and to
\* the synthesis call (and sent with each of their completion requests) is the
\* screenshot the collector captured.
C22_RecordFrozenAndScreenshotReused ==
    /\ [][auditData # JUndef => auditData' = auditData]_vars
    /\ [](auditData # JUndef =>
             /\ auditData.screenshot = [k |-> "b64", id |-> "live", from |-> 0, len |-> ShotLen]
             /\ auditData = auditResults)
    /\ [](InGenerate =>
             /\ gen.parts # << >>
             /\ gen.parts[1] = auditData.screenshot
             /\ Len(gen.parts) = IF gen.stage = "compare" THEN 2 ELSE 1
             /\ gen.stage = "compare" => gen.parts[2] = figmaImage)
    /\ [](\A st \in GenStages : \A j \in 1..Len(genLog[st]) :
             /\ genLog[st][j].parts # << >>
             /\ genLog[st][j].parts[1] = auditData.screenshot)

\* C22 witness: the synthesis call is sending a request with the screenshot,
\* after the plan call and compare each sent one with it.
C22_Witness ==
    /\ pc = "generate"
    /\ gen.stage = "synth"
    /\ gen.parts = << auditData.screenshot >>
    /\ genLog["plan"] # << >>
    /\ genLog["compare"] # << >>
    /\ genLog["compare"][1].parts = << auditData.screenshot, figmaImage >>
    /\ genLog["synth"] # << >>

\* C23: a mission makes at most one generate call per stage; one that is Done
\* made exactly one in Planning, one in Synthesizing, and in Comparing one if a
\* design image was obtained and none otherwise; every completion request
\* belongs to one of these calls and a call sends at most one request per
\* candidate, so the requests number at most three candidate lists.
C23_OneGenerateCallPerStage ==
    LET listLen(st) == IF st = "synth" /\ ~MissingOrEmpty(config.llmModel)
                       THEN Len(FallbackChain) + 1
                       ELSE Len(FallbackChain)
    IN  /\ \A st \in GenStages :
              /\ genCalls[st] \in {0, 1}
              /\ genLog[st] # << >> => genCalls[st] = 1
              /\ Requests(st) <= listLen(st)
        /\ TotalRequests <= 3 * (Len(FallbackChain) + 1)
        /\ (outcome = "Done") =>
              /\ genCalls["plan"] = 1
              /\ genCalls["synth"] = 1
              /\ genCalls["compare"] =
                    IF figmaImage.k = "b64" /\ figmaImage.len > 0 THEN 1 ELSE 0

\* C23 witness: a Done mission whose three calls went as far down their
\* candidate lists as a Done mission can: 4 + 4 + 5 requests.
C23_Witness ==
    /\ outcome = "Done"
    /\ Requests("plan") = 4
    /\ Requests("compare") = 4
    /\ Requests("synth") = 5
    /\ genCalls = [st \in GenStages |-> 1]

\* C25: the preferred model of the mission is tried first only by the
\* synthesis call; the requests of the plan call and of compare follow the
\* fixed chain from its first model, whatever llmModel the mission was given.
C25_PreferredModelOnlyInSynthesis ==
    LET chain == << "gemini-2.5-flash", "gemini-2.0-flash-exp",
                    "gemini-1.5-pro", "gemini-1.5-flash" >>
    IN  /\ \A st \in {"plan", "compare"} : \A j \in 1..Len(genLog[st]) :
              j <= Len(chain) /\ genLog[st][j].model = chain[j]
        /\ \A j \in 1..Len(genLog["synth"]) :
              IF MissingOrEmpty(config.llmModel)
              THEN j <= Len(chain) /\ genLog["synth"][j].model = chain[j]
              ELSE /\ j = 1 => genLog["synth"][j].model = config.llmModel.v
                   /\ j > 1 => j - 1 <= Len(chain) /\ genLog["synth"][j].model = chain[j - 1]

\* C25 witness: a mission given a preferred model outside the fixed chain whose
\* plan call and compare started at the chain's first model and whose synthesis
\* call started at the preferred model.
C25_Witness ==
    /\ config.llmModel = JStr("gemini-2.5-pro")
    /\ genLog["plan"] # << >>
    /\ genLog["plan"][1].model = "gemini-2.5-flash"
    /\ genLog["compare"] # << >>
    /\ genLog["compare"][1].model = "gemini-2.5-flash"
    /\ Len(genLog["synth"]) >= 2
    /\ genLog["synth"][1].model = "gemini-2.5-pro"
    /\ genLog["synth"][2].model = "gemini-2.5-flash"

\* C26: in the result of a mission that is Done, screenshot_preview is the
\* first 50 characters of the captured screenshot followed by "..." and
\* figma_status is the design status tag, also when the synthesis response has
\* fields of these names; every other field is the field of the parsed
\* synthesis response, and there are no further fields.
C26_OrchestratorFieldsWin ==
    (outcome = "Done") =>
        LET data == response.body.data
            L == genLog["synth"]
            parsed == Spread(JSONParse(cleanJson(L[Len(L)].text)))
            own == {"screenshot_preview", "figma_status"}
        IN  /\ DOMAIN data = DOMAIN parsed \cup own
            /\ \A f \in DOMAIN parsed \ own : data[f] = parsed[f]
            /\ data["screenshot_preview"] =
                  [k |-> "concat",
                   head |-> [k |-> "b64", id |-> "live", from |-> 0,
                             len |-> IF ShotLen < 50 THEN ShotLen ELSE 50],
                   tail |-> "..."]
            /\ data["figma_status"] \in {JStr("skipped"), JStr("failed"), JStr("success")}
            /\ data["figma_status"] =
                  JStr(IF figmaImage.k = "b64" /\ figmaImage.len > 0 THEN "success"
                       ELSE IF MissingOrEmpty(config.figmaFile) THEN "skipped" ELSE "failed")

\* C26 witness: the synthesis response itself had a figma_status and a
\* screenshot_preview, and the result carries its status field.
C26_Witness ==
    /\ outcome = "Done"
    /\ genLog["synth"][Len(genLog["synth"])].text = << ReportShadowDoc >>
    /\ response.body.data["status"] = JStr("fail")
    /\ response.body.data["figma_status"] = JStr("success")

\* The place of a stage in the pipeline.
StageRank(st) ==
    CASE st = "Idle" -> 0
      [] st = "Collecting" -> 1
      [] st = "Planning" -> 2
      [] st = "Comparing" -> 3
      [] st = "Synthesizing" -> 4

\* C27: when every collaborator call eventually returns or fails, the mission
\* eventually is Done or Failed and stays so; a generate call sends at most one
\* request per candidate of its list and its loop position never goes back; a
\* stage that was left is not entered again.
C27_MissionTerminates ==
    /\ <>[](outcome \in {"Done", "Failed"} /\ pc = "end")
    /\ [][outcome # "none" => (outcome' = outcome /\ stage' = stage /\ pc' = pc)]_vars
    /\ [](\A st \in GenStages : Len(genLog[st]) <= Len(FallbackChain) + 1)
    /\ [](InGenerate => gen.i <= Len(gen.models) + 1 /\ Len(gen.models) <= Len(FallbackChain) + 1)
    /\ [][(InGenerate /\ gen'.stage = gen.stage) => gen'.i >= gen.i]_vars
    /\ [][stage' # stage => StageRank(stage') > StageRank(stage)]_vars

\* C27 witness: a mission that ended Done after a generate call had gone
\* through its whole candidate list once.
C27_Witness ==
    /\ outcome = "Done"
    /\ pc = "end"
    /\ stage = "Synthesizing"
    /\ Len(genLog["plan"]) = Len(FallbackChain)
    /\ AllFailed(genLog["plan"])

\* The console messages of severity error or warning among the events e, and
\* the responses among them whose URL is u.
IsReported(e) == e.kind = "console" /\ e.type \in {"error", "warning"}
ReportedOf(e) == SelectSeq(e, IsReported)
ResponsesAt(e, u) ==
    LET atU(x) == x.kind = "response" /\ x.url = u
    IN  SelectSeq(e, atU)

\* What each mission is to end with, from its own request and the answers to
\* its own calls: the plan of its plan answer, the analysis of its compare answer.
OwnPlan(m) ==
    IF m = 1
    THEN JArr(<< Step(1, "A", "B") >>)
    ELSE JArr(<< Step(7, "Check Header", "Logo visible"), Step(3, "Click CTA", "Clickable") >>)
OwnAnalysis(m) ==
    IF m = 1 THEN JText(<< "Header colour differs." >>)
    ELSE JText(<< "The \"Buy\" button is missing." >>)
OwnStatus(m) == IF m = 1 THEN JStr("pass") ELSE JStr("fail")

\* The audit of mission m is under way or just over: its page's events are kept.
InAudit(m) == col[m].pc \in {"idle", "collect", "collectCatch", "returned", "thrown"}

\* C21: for two missions running at the same time, interleaved at every await
\* from the launch of the browser to the answer of the handler: no step changes
\* the locals of more than one mission; the record of a mission holds what its
\* own page emitted and is frozen once returned; its plan, its comparison text
\* and its result are those of its own request and of the answers to its own
\* calls; and every call on a browser is made by the one invocation that
\* launched it.
C21_MissionsAreIndependent ==
    /\ [][\E m \in Missions : \A n \in Missions \ {m} : col'[n] = col[n]]_vars
    /\ [][\A m \in Missions :
             (col[m].pc \notin {"idle", "collect", "collectCatch", "thrown"}) =>
                 (col'[m].ar = col[m].ar /\ col'[m].result = col[m].result)]_vars
    /\ [](\A m \in Missions :
             /\ InAudit(m) =>
                   /\ Len(col[m].ar.consoleLogs) = Len(ReportedOf(col[m].seen))
                   /\ col[m].ar.networkStatus \in
                         {0} \cup {col[m].seen[j].status :
                                     j \in {i \in 1..Len(col[m].seen) :
                                              col[m].seen[i].kind = "response"
                                                 /\ col[m].seen[i].url = UrlOf(m)}}
             /\ col[m].pc \notin {"idle", "collect", "collectCatch", "thrown"} =>
                   col[m].result = col[m].ar
             /\ col[m].plan # JUndef =>
                   col[m].plan = IF col[m].answers["plan"].ok
                                 THEN OwnPlan(m)
                                 ELSE JArr(<< Step(0, "Fallback Plan", "Verify Page Load") >>)
             /\ col[m].figmaImage \notin {JUndef, JNull} => m = 1
             /\ col[m].designAnalysis # JUndef =>
                   col[m].designAnalysis =
                       IF col[m].figmaImage.k = "b64" /\ col[m].figmaImage.len > 0
                       THEN OwnAnalysis(m)
                       ELSE JText(<< "No Figma Design provided for comparison." >>)
             /\ col[m].outcome = "Done" =>
                   /\ col[m].response.status = 200
                   /\ col[m].response.body.data["status"] = OwnStatus(m)
                   /\ col[m].response.body.data["figma_status"] =
                         IF m = 2 THEN JStr("skipped")
                         ELSE IF col[m].figmaImage.k = "b64" /\ col[m].figmaImage.len > 0
                              THEN JStr("success") ELSE JStr("failed")
                   /\ col[m].response.body.data["screenshot_preview"].head =
                         Substring0(col[m].result.screenshot, PreviewLen)
             /\ col[m].outcome = "Failed" =>
                   /\ col[m].response.status = 500
                   /\ col[m].response.body.error =
                         IF col[m].pc = "thrown"
                         THEN col[m].result.message
                         ELSE << "All AI agents failed to respond." >>)
    /\ [](\A b \in Missions :
             /\ col[b].users \subseteq {b}
             /\ \A u \in col[b].users : col[u].browser = b
             /\ col[b].browser \in {0, b}
             /\ col[b].session # "none" <=> col[b].browser # 0)

\* C21 witness: mission 1 began first and is in its compare call, one candidate
\* already failed, holding its own plan and a console error of its own page;
\* mission 2 is in its synthesis call holding its own plan and the status of
\* its own page's response.
C21_Witness ==
    /\ latest = 2
    /\ col[1].pc = "generate" /\ col[1].gen.stage = "compare" /\ col[1].gen.i = 2
    /\ col[1].plan = OwnPlan(1)
    /\ col[1].result.consoleLogs = << << "[", "error", "] ", "x" >> >>
    /\ col[1].result.networkStatus = 0
    /\ col[2].pc = "generate" /\ col[2].gen.stage = "synth"
    /\ col[2].plan = OwnPlan(2)
    /\ col[2].designAnalysis = Sentinel
    /\ col[2].result.networkStatus = 200
    /\ col[2].result.consoleLogs = << >>

\* C24: the two observers are attached before the navigation starts; for any
\* sequence of page events, consoleLogs is the console messages of severity
\* error or warning, formatted, in arrival order, and networkStatus is the
\* status of the most recent response whose URL is exactly the navigation URL,
\* 0 if there was none.
C24_ObserversRecordPageEvents ==
    \A m \in Missions :
        LET c == col[m]
            reported == ReportedOf(c.seen)
            own == ResponsesAt(c.seen, IF m = 1 THEN "https://a.test/" ELSE "https://b.test/")
        IN  /\ (c.cstep > 3 \/ c.seen # << >>) => c.observers = {"console", "response"}
            /\ c.cstep <= 3 => c.seen = << >>
            /\ c.ar.consoleLogs =
                  [i \in 1..Len(reported) |->
                      << "[", reported[i].type, "] ", reported[i].text >>]
            /\ c.ar.networkStatus = IF own = << >> THEN 0 ELSE own[Len(own)].status

\* C24 witness: the audit of UrlA returned after its page saw a redirect answer
\* at UrlA and then the answer of the redirect target.
C24_Witness ==
    /\ col[1].pc = "returned"
    /\ col[1].seen = << [kind |-> "response", url |-> "https://a.test/", status |-> 301],
                        [kind |-> "response", url |-> "https://b.test/", status |-> 200] >>
    /\ col[1].result.networkStatus = 301
    /\ col[1].result.consoleLogs = << >>

\* C28: the status of the panel only moves idle -> running -> finished ->
\* running and is never idle again once a run has started; no click on a device
\* selector changes the selection after the first run has started; the requests
\* of a run are sent one at a time in the order of the selected devices; and
\* the report is published by the step in which the last device's request
\* settles, holding one result per device.
C28_PanelRunsOneRequestAtATime ==
    /\ [][panel'.status # panel.status =>
             << panel.status, panel'.status >> \in
                 { << "idle", "running" >>, << "running", "finished" >>,
                   << "finished", "running" >> }]_vars
    /\ [][panel.status # "idle" =>
             (panel'.status # "idle" /\ panel'.selectedDevices = panel.selectedDevices)]_vars
    /\ [](panel.inFlight \in {0, 1}
            /\ (panel.inFlight = 1 <=> panel.status = "running")
            /\ (panel.status = "running" => panel.report = JNull)
            /\ Len(panel.run.sent) = Len(panel.run.results) + panel.inFlight
            /\ panel.run.sent = SubSeq(panel.run.devicesToRun, 1, Len(panel.run.sent))
            /\ \A i \in 1..Len(panel.run.results) :
                  panel.run.results[i].device = panel.run.devicesToRun[i])
    /\ [][(panel'.report # panel.report /\ panel'.report # JNull) =>
             /\ panel.inFlight = 1
             /\ panel'.inFlight = 0
             /\ panel.run.sent = panel.run.devicesToRun
             /\ Len(panel'.report.results) = Len(panel.run.devicesToRun)
             /\ \A i \in 1..Len(panel.run.devicesToRun) :
                   panel'.report.results[i].device = panel.run.devicesToRun[i]
             /\ panel'.status = "finished"]_vars

\* C28 witness: a second run is under way with its second request in flight,
\* and a click on a device selector was dropped after the first run started;
\* the selection is still the initial one.
C28_Witness ==
    /\ panel.status = "running"
    /\ panel.ignored
    /\ panel.selectedDevices = [mobile |-> TRUE, tablet |-> FALSE, desktop |-> TRUE]
    /\ panel.run.sent = << "mobile", "desktop" >>
    /\ Len(panel.run.results) = 1
    /\ panel.inFlight = 1
    /\ panel.report = JNull

====
